---- MODULE Spec2Model ----
(***************************************************************************)
(* Pipeline of the IWC Boothill GCBM input processing:                     *)
(*   02_classifiers.assign_classifiers           (classifier tuples)       *)
(*   03_yield_curves.run                         (yield curves)            *)
(*   05_disturbances.extract_disturbance_events  (rotation tagging)        *)
(*   05_disturbances.classify_partial_clearcuts  (split-year clearcuts)    *)
(*   05_disturbances.calc_thinning_pct           (removal percentages)     *)
(*   06_transitions.build_transition_rules       (transition rules)        *)
(* in the order run_pipeline.main calls them, and the archive database of  *)
(* aidb_disturbance_manager.ensure_disturbances_exist.                     *)
(*                                                                         *)
(* Numbers: volumes and areas are integers; a percentage is held in        *)
(* hundredths of a percent (33.33 is 3333), which is what round(x, 2)      *)
(* leaves.  A missing cell (NaN) is the empty set, a present value v is    *)
(* the set {v}.  Type names and trajectory keys are real strings, built    *)
(* and parsed character by character as the f-strings and float() do.      *)
(***************************************************************************)
EXTENDS Integers, Sequences, FiniteSets, TLC

VARIABLES
    spatial,     \* data["spatial"]: one row per stand of the stand layer
    condition_initial, \* the PERIOD = 0 rows of the condition file
    pc,          \* position in run_pipeline.main
    schedule,    \* data["schedule"]: rows of the management schedule, in file order
    cond_area,   \* condition_initial AREA by stand_key (stands may be absent)
    stands,      \* classifier table of 02_classifiers by stand_key (stands may be absent)
    stand_attrs, \* the si_raw and IS_FOREST columns of that table by stand_key
                 \* (si_raw in tenths where assign_classifiers filled it)
    yields1,     \* Yields1 rows (stand-specific)
    yields3,     \* Yields3 rows (thinning simulation)
    yields2,     \* Yields2 rows (regen, by SI and species)
    curves,      \* 03_yield_curves.run: the deduplicated curve table
    events,      \* the event table
    n_warnings,  \* calc_thinning_pct: zero pre-thin volume diagnostics
    rules,       \* build_transition_rules: the list `rules`, before deduplication
    rules_df,    \* build_transition_rules: the deduplicated table returned
    aidb,        \* the archive database: its tables, rows in insertion order
    ensure       \* the call of ensure_disturbances_exist: position and locals

pipeline_vars == <<pc, schedule, cond_area, stands, stand_attrs, yields1, yields3,
                   yields2, curves, events, n_warnings, rules, rules_df>>

aidb_vars == <<aidb, ensure>>

ingest_vars == <<spatial, condition_initial>>

vars == <<pipeline_vars, aidb_vars, ingest_vars>>

(***************************************************************************)
(* config.py                                                               *)
(***************************************************************************)
MAX_AGE_YIELDS1 == 78
MAX_AGE_YIELDS2 == 50
SI_CLASS_INTERVAL == 5
GROWTH_PERIOD_CURRENT == "current"
GROWTH_PERIOD_POST_REGEN == "post_regen"
NON_DISTURBANCE_ACTIONS == {"aPLT", "aFERTL", "aFERTM"}

ACTION_TO_DISTURBANCE(action) ==
    CASE action = "aHCC"    -> "Clearcut"
      [] action = "aHTHIN1" -> "1st_Thin"
      [] action = "aHTHIN2" -> "2nd_Thin"
      [] action = "aSP"     -> "Site_Prep"
      [] OTHER              -> "nan"

(***************************************************************************)
(* Values and strings                                                      *)
(***************************************************************************)
NaN == {}
Num(v) == {v}
IsNa(c) == c = {}
Val(c) == CHOOSE v \in c : TRUE

\* The stand keys of the model, in the lexicographic order pandas sorts them by.
StandKeys == <<"S1", "S2">>
StandSet == {StandKeys[i] : i \in DOMAIN StandKeys}
StandOrd(sk) == CHOOSE i \in DOMAIN StandKeys : StandKeys[i] = sk

EndsWith(s, suffix) ==
    /\ Len(s) >= Len(suffix)
    /\ SubSeq(s, Len(s) - Len(suffix) + 1, Len(s)) = suffix

\* str.replace(suffix, "") for a string that ends with the suffix and holds it once
StripSuffix(s, suffix) == SubSeq(s, 1, Len(s) - Len(suffix))

DigitVal(c) == CHOOSE d \in 0..9 : ToString(d) = c
IsDigit(c) == \E d \in 0..9 : ToString(d) = c

\* int() of a string of digits
RECURSIVE ParseDigits(_, _)
ParseDigits(s, acc) ==
    IF Len(s) = 0 THEN acc
    ELSE ParseDigits(Tail(s), 10 * acc + DigitVal(Head(s)))

RECURSIVE DotPos(_, _)
DotPos(s, i) ==
    IF i > Len(s) THEN 0
    ELSE IF SubSeq(s, i, i) = "." THEN i
    ELSE DotPos(s, i + 1)

\* float() of a decimal literal "I.F", returned in hundredths (the model's
\* literals carry at most two decimals)
ParseFloat(s) ==
    LET d == DotPos(s, 1)
        ip == IF d = 0 THEN s ELSE SubSeq(s, 1, d - 1)
        fp == IF d = 0 THEN "" ELSE SubSeq(s, d + 1, Len(s))
        f2 == IF Len(fp) = 0 THEN "00"
              ELSE IF Len(fp) = 1 THEN fp \o "0"
              ELSE SubSeq(fp, 1, 2)
    IN  100 * ParseDigits(ip, 0) + ParseDigits(f2, 0)

\* str() of a float that holds h hundredths: the shortest literal that reads
\* back, so trailing zeros are dropped but one decimal always stays ("40.0")
FormatFloat(h) ==
    LET ip == h \div 100
        fr == h % 100
    IN  IF fr % 10 = 0 THEN ToString(ip) \o "." \o ToString(fr \div 10)
        ELSE IF fr < 10 THEN ToString(ip) \o ".0" \o ToString(fr)
        ELSE ToString(ip) \o "." \o ToString(fr)

\* round(num / den * 100, 2) in hundredths: the quotient 10000*num/den rounded
\* to the nearest integer, ties to even
RoundPct(num, den) ==
    LET n == 10000 * num
        q == n \div den
        r == n % den
    IN  IF 2 * r < den THEN q
        ELSE IF 2 * r > den THEN q + 1
        ELSE IF q % 2 = 0 THEN q ELSE q + 1

\* f"T1-{a}-T2-{b}-F1-{c}-F2-{d}"
Trajectory(a, b, c, d) ==
    "T1-" \o ToString(a) \o "-T2-" \o ToString(b)
          \o "-F1-" \o ToString(c) \o "-F2-" \o ToString(d)

\* The length of the run of digits of s that starts at position i
RECURSIVE DigitRun(_, _)
DigitRun(s, i) ==
    IF i > Len(s) THEN 0
    ELSE IF IsDigit(SubSeq(s, i, i)) THEN 1 + DigitRun(s, i + 1)
    ELSE 0

\* re.match(r"T1-(\d+)-T2-(\d+)") at position i of s: <<>> or the two groups
MatchThinAges(s, i) ==
    IF i + 2 > Len(s) \/ SubSeq(s, i, i + 2) # "T1-" THEN <<>>
    ELSE LET n1 == DigitRun(s, i + 3)
             j  == i + 3 + n1
         IN  IF n1 = 0 \/ j + 3 > Len(s) \/ SubSeq(s, j, j + 3) # "-T2-" THEN <<>>
             ELSE LET n2 == DigitRun(s, j + 4)
                  IN  IF n2 = 0 THEN <<>>
                      ELSE << ParseDigits(SubSeq(s, i + 3, j - 1), 0),
                              ParseDigits(SubSeq(s, j + 4, j + 3 + n2), 0) >>

\* 03_yield_curves._parse_thin_ages: the first match in the string, (0, 0)
\* when there is none
RECURSIVE SearchThinAges(_, _)
SearchThinAges(s, i) ==
    IF i > Len(s) THEN <<0, 0>>
    ELSE IF MatchThinAges(s, i) # <<>> THEN MatchThinAges(s, i)
    ELSE SearchThinAges(s, i + 1)

_parse_thin_ages(trajectory) == SearchThinAges(trajectory, 1)

\* DataFrame.sort_values on integer keys, stable.  A row travels as the pair
\* <<key, row>>; each pair is inserted after the pairs whose key is not greater.
RECURSIVE InsertSorted(_, _)
InsertSorted(sorted, p) ==
    IF Len(sorted) = 0 THEN <<p>>
    ELSE IF sorted[Len(sorted)][1] <= p[1] THEN Append(sorted, p)
    ELSE Append(InsertSorted(SubSeq(sorted, 1, Len(sorted) - 1), p),
                sorted[Len(sorted)])

RECURSIVE SortPairs(_)
SortPairs(pairs) ==
    IF Len(pairs) = 0 THEN <<>>
    ELSE InsertSorted(SortPairs(SubSeq(pairs, 1, Len(pairs) - 1)),
                      pairs[Len(pairs)])

Rows(pairs) == [i \in DOMAIN pairs |-> pairs[i][2]]

(***************************************************************************)
(* 05_disturbances.py -- 6a: extract_disturbance_events                    *)
(***************************************************************************)
\* 01_ingest.load_schedule: is_disturbance
IsDisturbance(row) == row.action \notin NON_DISTURBANCE_ACTIONS

\* The event columns of one schedule row; idx is the DataFrame index label the
\* row keeps through every sort.  pct_volume_removed does not exist yet.
EventOf(row, i) ==
    [idx |-> i, stand_key |-> row.stand_key, year |-> row.YEAR,
     action |-> row.action,
     disturbance_type |-> ACTION_TO_DISTURBANCE(row.action),
     age |-> row.AGE, area |-> row.AREA,
     species |-> row.species, si |-> row.si,
     thin1 |-> row.thin1, thin2 |-> row.thin2,
     fert1 |-> row.fert1, fert2 |-> row.fert2,
     rotation |-> 1, pct_volume_removed |-> NaN]

\* events.sort_values(["stand_key", "year"])
SortByStandYear(evs) ==
    Rows(SortPairs([i \in DOMAIN evs |->
             <<StandOrd(evs[i].stand_key) * 10000 + evs[i].year, evs[i]>>]))

\* sort_values("year")
SortByYear(evs) ==
    Rows(SortPairs([i \in DOMAIN evs |-> <<evs[i].year, evs[i]>>]))

\* for sk in events["stand_key"].unique(), in order of first appearance
RECURSIVE UniqueStands(_, _)
UniqueStands(evs, seen) ==
    IF Len(evs) = 0 THEN seen
    ELSE IF \E k \in DOMAIN seen : seen[k] = Head(evs).stand_key
         THEN UniqueStands(Tail(evs), seen)
         ELSE UniqueStands(Tail(evs), Append(seen, Head(evs).stand_key))

\* TagStand with the order ignored: a thin is tagged when the stand has a
\* clearcut anywhere in the schedule
TagStandAnyClearcut(sk_events, i, cc_seen) ==
    { sk_events[k].idx : k \in { n \in DOMAIN sk_events :
        /\ sk_events[n].disturbance_type \in {"1st_Thin", "2nd_Thin"}
        /\ \E m \in DOMAIN sk_events :
               sk_events[m].disturbance_type = "Clearcut" } }

\* The loop over one stand's events with the cc_seen flag: the index labels
\* that get rotation 2.
RECURSIVE TagStand(_, _, _)
TagStand(sk_events, i, cc_seen) ==
    IF i > Len(sk_events) THEN {}
    ELSE LET row == sk_events[i] IN
         IF row.disturbance_type = "Clearcut"
         THEN TagStand(sk_events, i + 1, TRUE)
         ELSE IF row.disturbance_type \in {"1st_Thin", "2nd_Thin"} /\ cc_seen
         THEN {row.idx} \cup TagStand(sk_events, i + 1, cc_seen)
         ELSE TagStand(sk_events, i + 1, cc_seen)

RotationTwo(evs) ==
    LET sks == UniqueStands(evs, <<>>)
    IN  UNION { TagStand(SortByYear(SelectSeq(evs,
                             LAMBDA e : e.stand_key = sks[k])),
                         1, FALSE) : k \in DOMAIN sks }

extract_disturbance_events(sched) ==
    LET indexed == [i \in DOMAIN sched |-> <<sched[i], i>>]
        dist    == SelectSeq(indexed, LAMBDA p : IsDisturbance(p[1]))
        evs0    == [i \in DOMAIN dist |-> EventOf(dist[i][1], dist[i][2])]
        evs     == SortByStandYear(evs0)
        two     == RotationTwo(evs)
    IN  [i \in DOMAIN evs |->
            IF evs[i].idx \in two THEN [evs[i] EXCEPT !.rotation = 2]
            ELSE evs[i]]

(***************************************************************************)
(* 05_disturbances.py -- 6a2: classify_partial_clearcuts                   *)
(***************************************************************************)
CLUSTER_GAP_YEARS == 10
PARTIAL_AREA_PCT == 95
PARTIAL_SUFFIX == "% clearcut"

\* ClusterFold with the gap test off by one: a gap of exactly 10 years
\* already starts a new cluster
RECURSIVE ClusterFoldGapOff(_, _, _)
ClusterFoldGapOff(sk_cc, i, clusters) ==
    IF i > Len(sk_cc) THEN clusters
    ELSE IF sk_cc[i].year - sk_cc[i - 1].year >= CLUSTER_GAP_YEARS
         THEN ClusterFoldGapOff(sk_cc, i + 1, Append(clusters, <<i>>))
         ELSE ClusterFoldGapOff(sk_cc, i + 1,
                  [clusters EXCEPT ![Len(clusters)] = Append(@, i)])

\* clusters = [[0]]; for i in range(1, len(sk_years)): ...   (1-based here)
RECURSIVE ClusterFold(_, _, _)
ClusterFold(sk_cc, i, clusters) ==
    IF i > Len(sk_cc) THEN clusters
    ELSE IF sk_cc[i].year - sk_cc[i - 1].year > CLUSTER_GAP_YEARS
         THEN ClusterFold(sk_cc, i + 1, Append(clusters, <<i>>))
         ELSE ClusterFold(sk_cc, i + 1,
                  [clusters EXCEPT ![Len(clusters)] = Append(@, i)])

Clusters(sk_cc) == ClusterFold(sk_cc, 2, << <<1>> >>)

\* sk_areas[i] / stand_area < 0.95
IsPartial(area, stand_area) == 100 * area < PARTIAL_AREA_PCT * stand_area

\* f"{pct}% clearcut" with pct = round(sk_areas[i] / stand_area * 100, 2)
PartialName(area, stand_area) ==
    FormatFloat(RoundPct(area, stand_area)) \o PARTIAL_SUFFIX

\* The relabelling of one cluster: pairs <<index label, new type>>
ClusterRelabels(sk_cc, cluster, stand_area) ==
    IF Len(cluster) <= 1 THEN {}
    ELSE IF ~ \E k \in DOMAIN cluster :
                 IsPartial(sk_cc[cluster[k]].area, stand_area)
    THEN {}
    ELSE { <<sk_cc[cluster[k]].idx,
             PartialName(sk_cc[cluster[k]].area, stand_area)>> :
           k \in 1..(Len(cluster) - 1) }

StandRelabels(evs, area_of, sk) ==
    LET cc == SelectSeq(evs, LAMBDA e :
                  e.disturbance_type = "Clearcut" /\ e.stand_key = sk)
    IN  IF Len(cc) <= 1 THEN {}
        ELSE IF sk \notin DOMAIN area_of THEN {}
        ELSE IF area_of[sk] <= 0 THEN {}
        ELSE LET sk_cc == SortByYear(cc)
                 cl    == Clusters(sk_cc)
             IN  UNION { ClusterRelabels(sk_cc, cl[c], area_of[sk]) :
                         c \in DOMAIN cl }

classify_partial_clearcuts(evs, area_of) ==
    LET relabels == UNION { StandRelabels(evs, area_of, sk) : sk \in StandSet }
    IN  [i \in DOMAIN evs |->
            IF \E p \in relabels : p[1] = evs[i].idx
            THEN [evs[i] EXCEPT !.disturbance_type =
                      (CHOOSE p \in relabels : p[1] = evs[i].idx)[2]]
            ELSE evs[i]]

(***************************************************************************)
(* 05_disturbances.py -- 6b: calc_thinning_pct                             *)
(***************************************************************************)
\* A lookup returns None or a float; None is the empty set, a float v is {v}.
None == {}

\* One cell of a yields row: the age columns a row has no value for are NaN.
Cell(row, age) == IF age \in DOMAIN row.vol THEN Num(row.vol[age]) ELSE NaN

_get_volume_at_age(yields_df, stand_key, trajectory, product, age, max_age) ==
    IF age < 1 \/ age > max_age THEN Num(0)
    ELSE LET sub == SelectSeq(yields_df, LAMBDA r :
                        /\ r.stand_key = stand_key
                        /\ r.mgmt_trajectory = trajectory
                        /\ r.Product = product)
         IN  IF Len(sub) = 0 THEN None
             ELSE IF IsNa(Cell(sub[1], age)) THEN Num(0)
             ELSE Cell(sub[1], age)

_get_regen_volume_at_age(y2, si_class, species_code, trajectory, product, age) ==
    IF age < 1 \/ age > MAX_AGE_YIELDS2 THEN Num(0)
    ELSE LET sub == SelectSeq(y2, LAMBDA r :
                        /\ r.si_value = si_class
                        /\ r.species_code = species_code
                        /\ r.mgmt_trajectory = trajectory
                        /\ r.Product = product)
         IN  IF Len(sub) = 0 THEN None
             ELSE IF IsNa(Cell(sub[1], age)) THEN Num(0)
             ELSE Cell(sub[1], age)

_species_to_regen_code(species) ==
    CASE species \in {"LB", "COLB", "CSLB", "PH", "HH", "SH"} -> "LB"
      [] species \in {"LL", "COLL", "CSLL"} -> "LL"
      [] species \in {"SL", "COSL", "CSSL"} -> "SL"
      [] OTHER -> "LB"

\* round(si_value / 5) * 5 clamped to 50..100; si is an integer here, so the
\* quotient is never halfway between two integers
_round_si(si_value) ==
    IF si_value = 0 THEN 50
    ELSE LET q == si_value \div SI_CLASS_INTERVAL
             r == si_value % SI_CLASS_INTERVAL
             rounded == IF 2 * r < SI_CLASS_INTERVAL
                        THEN q * SI_CLASS_INTERVAL
                        ELSE (q + 1) * SI_CLASS_INTERVAL
         IN  IF rounded < 50 THEN 50 ELSE IF rounded > 100 THEN 100 ELSE rounded

IsThin(e) == e.disturbance_type \in {"1st_Thin", "2nd_Thin"}

\* The pre-treatment trajectory (no_thin_traj / t1_only_traj) and the
\* post-treatment one (thinned_traj) of a thinning event
PreTraj(evt) ==
    IF evt.disturbance_type = "1st_Thin"
    THEN Trajectory(0, 0, evt.fert1, evt.fert2)
    ELSE Trajectory(evt.thin1, 0, evt.fert1, evt.fert2)

ThinnedTraj(evt) ==
    IF evt.disturbance_type = "1st_Thin"
    THEN Trajectory(evt.age, 0, evt.fert1, evt.fert2)
    ELSE Trajectory(evt.thin1, evt.age, evt.fert1, evt.fert2)

\* Yields3 first, then Yields1 when Yields3 has no row
CurrentVolume(y1, y3, sk, traj, product, age) ==
    LET v3 == _get_volume_at_age(y3, sk, traj, product, age, MAX_AGE_YIELDS1)
    IN  IF v3 = None
        THEN _get_volume_at_age(y1, sk, traj, product, age, MAX_AGE_YIELDS1)
        ELSE v3

\* pre_p, rem_p, pre_h, rem_h of one thinning event, as looked up
ThinVolumes(evt, y1, y3, y2) ==
    IF evt.rotation = 2
    THEN LET si == _round_si(evt.si)
             sp == _species_to_regen_code(evt.species)
         IN  [pre_p |-> _get_regen_volume_at_age(y2, si, sp, PreTraj(evt),
                                                 "P_TOP4M3PA", evt.age),
              rem_p |-> _get_regen_volume_at_age(y2, si, sp, ThinnedTraj(evt),
                                                 "qP_TOP4M3PA", evt.age),
              pre_h |-> _get_regen_volume_at_age(y2, si, sp, PreTraj(evt),
                                                 "H_TOP4M3PA", evt.age),
              rem_h |-> Num(0)]
    ELSE [pre_p |-> CurrentVolume(y1, y3, evt.stand_key, PreTraj(evt),
                                  "P_TOP4M3PA", evt.age),
          rem_p |-> CurrentVolume(y1, y3, evt.stand_key, ThinnedTraj(evt),
                                  "qP_TOP4M3PA", evt.age),
          pre_h |-> CurrentVolume(y1, y3, evt.stand_key, PreTraj(evt),
                                  "H_TOP4M3PA", evt.age),
          rem_h |-> Num(0)]

OrZero(v) == IF v = None THEN 0 ELSE Val(v)

\* PctOf with the diagnostic left out
PctOfSilent(total_rem, total_pre) ==
    IF total_pre > 0
    THEN [pct |-> RoundPct(total_rem, total_pre), warned |-> FALSE]
    ELSE [pct |-> 0, warned |-> FALSE]

\* "Calculate percentage": the percentage (hundredths) and whether the
\* zero-volume diagnostic is counted
PctOf(total_rem, total_pre) ==
    IF total_pre > 0
    THEN [pct |-> RoundPct(total_rem, total_pre), warned |-> FALSE]
    ELSE [pct |-> 0, warned |-> TRUE]

ThinPct(evt, y1, y3, y2) ==
    LET v == ThinVolumes(evt, y1, y3, y2)
    IN  PctOf(OrZero(v.rem_p) + OrZero(v.rem_h),
              OrZero(v.pre_p) + OrZero(v.pre_h))

CLEARCUT_PCT == 9700

\* The assignments after the merge, in the order of the code
FinalPct(e, merged) ==
    IF e.disturbance_type = "Site_Prep" THEN Num(0)
    ELSE IF EndsWith(e.disturbance_type, PARTIAL_SUFFIX)
    THEN Num(ParseFloat(StripSuffix(e.disturbance_type, PARTIAL_SUFFIX)))
    ELSE IF e.disturbance_type = "Clearcut" THEN Num(CLEARCUT_PCT)
    ELSE merged

\* Returns the event table and n_warnings
calc_thinning_pct(evs, y1, y3, y2) ==
    IF ~ \E i \in DOMAIN evs : IsThin(evs[i])
    THEN [events |-> [i \in DOMAIN evs |->
                         [evs[i] EXCEPT !.pct_volume_removed = NaN]],
          n_warnings |-> 0]
    ELSE [events |-> [i \in DOMAIN evs |->
             [evs[i] EXCEPT !.pct_volume_removed =
                 FinalPct(evs[i],
                          IF IsThin(evs[i])
                          THEN Num(ThinPct(evs[i], y1, y3, y2).pct)
                          ELSE NaN)]],
          n_warnings |-> Cardinality({ i \in DOMAIN evs :
                             IsThin(evs[i]) /\ ThinPct(evs[i], y1, y3, y2).warned })]

(***************************************************************************)
(* 06_transitions.py: build_transition_rules                               *)
(***************************************************************************)
_CLEARCUT_SPECIES_MAP(species) ==
    CASE species \in {"LB", "COLB", "CSLB", "PH", "HH", "SH"} -> "LB"
      [] species \in {"LL", "COLL", "CSLL"} -> "LL"
      [] species \in {"SL", "COSL", "CSSL"} -> "SL"
      [] OTHER -> species

RESET_TO_ZERO == 0
NO_RESET == -1

\* An event gets a rule when its stand has a classifier row and its type is
\* one of the four the loop handles; every other event is skipped.
MakesRule(evt, stand_tbl) ==
    /\ evt.stand_key \in DOMAIN stand_tbl
    /\ evt.disturbance_type \in {"Clearcut", "1st_Thin", "2nd_Thin", "Site_Prep"}

ThinTarget(evt) ==
    IF evt.disturbance_type = "1st_Thin"
    THEN Trajectory(evt.thin1, 0, evt.fert1, evt.fert2)
    ELSE Trajectory(evt.thin1, evt.thin2, evt.fert1, evt.fert2)

\* RuleOf with the replant mapping left out of the clearcut branch
RuleOfKeepSpecies(evt, stand_tbl) ==
    LET src == stand_tbl[evt.stand_key]
        tgt == CASE evt.disturbance_type = "Clearcut" ->
                      [src EXCEPT !.growth_period = GROWTH_PERIOD_POST_REGEN,
                                  !.mgmt_trajectory = "T1-0-T2-0-F1-0-F2-0"]
                 [] IsThin(evt) ->
                      [src EXCEPT !.mgmt_trajectory = ThinTarget(evt)]
                 [] OTHER -> src
    IN  [disturbance_type |-> evt.disturbance_type, src |-> src, tgt |-> tgt,
         reset_age |-> IF evt.disturbance_type = "Clearcut"
                       THEN RESET_TO_ZERO ELSE NO_RESET]

RuleOf(evt, stand_tbl) ==
    LET src == stand_tbl[evt.stand_key]
        tgt == CASE evt.disturbance_type = "Clearcut" ->
                      [src EXCEPT !.growth_period = GROWTH_PERIOD_POST_REGEN,
                                  !.species = _CLEARCUT_SPECIES_MAP(src.species),
                                  !.mgmt_trajectory = "T1-0-T2-0-F1-0-F2-0"]
                 [] IsThin(evt) ->
                      [src EXCEPT !.mgmt_trajectory = ThinTarget(evt)]
                 [] OTHER -> src
    IN  [disturbance_type |-> evt.disturbance_type, src |-> src, tgt |-> tgt,
         reset_age |-> IF evt.disturbance_type = "Clearcut"
                       THEN RESET_TO_ZERO ELSE NO_RESET]

\* The list `rules`: one rule per event that makes one, in event order
RuleList(evs, stand_tbl) ==
    LET gen == SelectSeq(evs, LAMBDA e : MakesRule(e, stand_tbl))
    IN  [k \in DOMAIN gen |-> RuleOf(gen[k], stand_tbl)]

\* drop_duplicates(subset = disturbance_type + source classifiers), first kept
DropDuplicates(rs) ==
    LET keep == { k \in DOMAIN rs :
                    ~ \E j \in 1..(k - 1) :
                        /\ rs[j].disturbance_type = rs[k].disturbance_type
                        /\ rs[j].src = rs[k].src }
        indexed == [k \in DOMAIN rs |-> <<k, rs[k]>>]
        kept == SelectSeq(indexed, LAMBDA p : p[1] \in keep)
    IN  [k \in DOMAIN kept |-> kept[k][2]]

(***************************************************************************)
(* 02_classifiers.py                                                       *)
(*                                                                         *)
(* A raw site index is held in tenths (72.5 is 725), so that a value       *)
(* halfway between two classes has its own case.                           *)
(***************************************************************************)
\* round(x) of Python for x = num / den >= 0: to the nearest integer, a tie
\* to the even one
PyRound(num, den) ==
    LET q == num \div den
        r == num % den
    IN  IF 2 * r < den THEN q
        ELSE IF 2 * r > den THEN q + 1
        ELSE IF q % 2 = 0 THEN q ELSE q + 1

\* The class below the value instead of the nearest one
round_si_down(si_value) ==
    IF IsNa(si_value) \/ Val(si_value) = 0 THEN "SI0"
    ELSE "SI" \o ToString((Val(si_value) \div (10 * SI_CLASS_INTERVAL))
                              * SI_CLASS_INTERVAL)

\* 02_classifiers.round_si of a cell in tenths: "SI" and the class
round_si(si_value) ==
    IF IsNa(si_value) \/ Val(si_value) = 0 THEN "SI0"
    ELSE "SI" \o ToString(PyRound(Val(si_value), 10 * SI_CLASS_INTERVAL)
                              * SI_CLASS_INTERVAL)

\* Series.fillna(other)
Fillna(cell, other) == IF IsNa(cell) THEN other ELSE cell

\* cond.drop_duplicates(subset=["stand_key"]) and the left merge: the first
\* condition row of the stand, NaN in every column when there is none
CondOf(cond, sk) ==
    LET hits == { i \in DOMAIN cond : cond[i].stand_key = sk }
    IN  IF hits = {}
        THEN [stand_key |-> sk, Species |-> NaN, Origin |-> NaN, SI |-> NaN,
              Thin1 |-> NaN, Thin2 |-> NaN, Fert1 |-> NaN, Fert2 |-> NaN]
        ELSE cond[CHOOSE i \in hits : \A j \in hits : i <= j]

\* stands[col].fillna(0).astype(int)
AgeOf(cell) == Val(Fillna(cell, Num(0)))

\* The trajectory of one merged row, without the non-forest override
TrajectoryOfAnyStand(sp_row, c) ==
    Trajectory(AgeOf(c.Thin1), AgeOf(c.Thin2), AgeOf(c.Fert1), AgeOf(c.Fert2))

\* The trajectory of one merged row: the f-string of the four ages, then
\* "Non-forest stands get NOGROW trajectory"
TrajectoryOf(sp_row, c) ==
    IF ~sp_row.IS_FOREST THEN "T1-0-T2-0-F1-0-F2-0"
    ELSE Trajectory(AgeOf(c.Thin1), AgeOf(c.Thin2), AgeOf(c.Fert1), AgeOf(c.Fert2))

\* The row of the spatial layer of a stand
SpatialOf(sp, sk) == sp[CHOOSE i \in DOMAIN sp : sp[i].STAND_KEY = sk]

\* assign_classifiers: the five classifiers of every stand of the layer
assign_classifiers(sp, cond) ==
    [sk \in { sp[i].STAND_KEY : i \in DOMAIN sp } |->
        LET r == SpatialOf(sp, sk)
            c == CondOf(cond, sk)
        IN  [species |-> Val(Fillna(c.Species, Num(r.DOMSPECLAB))),
             origin |-> Val(Fillna(c.Origin, Num(r.ORIGIN_CODE))),
             si_class |-> round_si(Fillna(c.SI, r.SITE_INDEX)),
             growth_period |-> GROWTH_PERIOD_CURRENT,
             mgmt_trajectory |-> TrajectoryOf(r, c)]]

\* The si_raw and IS_FOREST columns of the table assign_classifiers returns
ClassifierAttrs(sp, cond) ==
    [sk \in { sp[i].STAND_KEY : i \in DOMAIN sp } |->
        [si_raw |-> Fillna(CondOf(cond, sk).SI, SpatialOf(sp, sk).SITE_INDEX),
         IS_FOREST |-> SpatialOf(sp, sk).IS_FOREST]]

(***************************************************************************)
(* 03_yield_curves.py                                                      *)
(*                                                                         *)
(* A curve is a function from age columns to volumes.  The age columns     *)
(* "1" .. "78" are sampled: AGE_SAMPLE holds the thinning ages of the      *)
(* inputs, the last regen age (50), one age beyond it and the last age.    *)
(* Every operation on a curve works column by column except the flat       *)
(* extension, which reads column 50, and the qP adjustment, which reads    *)
(* the column of a thinning age.  A converted volume is held in units of   *)
(* 10^-5 m3/ha: the factor 2.47105 is the integer 247105.                  *)
(***************************************************************************)
M3_ACRE_TO_M3_HA == 247105

AGE_SAMPLE == {15, 19, 25, 50, 60, 78}

_age_cols(max_age) == { a \in AGE_SAMPLE : a <= max_age }

\* np.zeros(max_age)
Zeros(max_age) == [a \in _age_cols(max_age) |-> 0]

\* Rows of one product; each age column coerced, NaN filled with 0, converted
_extract_volume_by_age(df, product, max_age) ==
    LET sub == SelectSeq(df, LAMBDA r : r.Product = product)
    IN  [i \in DOMAIN sub |->
            [sub[i] EXCEPT !.vol =
                [a \in _age_cols(max_age) |->
                    (IF a \in DOMAIN sub[i].vol THEN sub[i].vol[a] ELSE 0)
                        * M3_ACRE_TO_M3_HA]]]

\* 03_yield_curves._round_si (the same rule as 05_disturbances._round_si)
yc_round_si(si_value) ==
    IF IsNa(si_value) \/ si_value = Num(0) THEN 50
    ELSE LET si == Val(si_value)
             q == si \div SI_CLASS_INTERVAL
             r == si % SI_CLASS_INTERVAL
             rounded == IF 2 * r < SI_CLASS_INTERVAL
                        THEN q * SI_CLASS_INTERVAL
                        ELSE (q + 1) * SI_CLASS_INTERVAL
         IN  IF rounded < 50 THEN 50 ELSE IF rounded > 100 THEN 100 ELSE rounded

\* re.sub(r"T2-\d+", "T2-0", trajectory), from position i on
RECURSIVE SubT2(_, _)
SubT2(s, i) ==
    IF i > Len(s) THEN ""
    ELSE IF i + 2 <= Len(s) /\ SubSeq(s, i, i + 2) = "T2-" /\ DigitRun(s, i + 3) > 0
    THEN "T2-0" \o SubT2(s, i + 3 + DigitRun(s, i + 3))
    ELSE SubSeq(s, i, i) \o SubT2(s, i + 1)

\* dict.get of a {trajectory: curve} dict filled row by row: the last row of
\* the trajectory, or None
QpGet(qp_rows, trajectory) ==
    LET sub == SelectSeq(qp_rows, LAMBDA r : r.mgmt_trajectory = trajectory)
    IN  IF Len(sub) = 0 THEN None ELSE Num(sub[Len(sub)].vol)

\* qp_arr[age - 1]
At(arr, age) == arr[age]

\* Both removed volumes read from the variant of the trajectory itself
QpAdjustmentOfOneVariant(trajectory, qp_rows, max_age) ==
    LET ages == _parse_thin_ages(trajectory)
        qp == QpGet(qp_rows, trajectory)
    IN  IF ages[1] = 0 /\ ages[2] = 0 THEN 0
        ELSE (IF ages[1] > 0 /\ qp # None /\ ages[1] <= max_age
              THEN At(Val(qp), ages[1]) ELSE 0)
           + (IF ages[2] > 0 /\ qp # None /\ ages[2] <= max_age
              THEN At(Val(qp), ages[2]) ELSE 0)

_compute_qp_adjustment(trajectory, qp_rows, max_age) ==
    LET ages == _parse_thin_ages(trajectory)
        thin1_age == ages[1]
        thin2_age == ages[2]
        qp1 == QpGet(qp_rows, SubT2(trajectory, 1))
        qp2 == QpGet(qp_rows, trajectory)
    IN  IF thin1_age = 0 /\ thin2_age = 0 THEN 0
        ELSE (IF thin1_age > 0 /\ qp1 # None /\ thin1_age <= max_age
              THEN At(Val(qp1), thin1_age) ELSE 0)
           + (IF thin2_age > 0 /\ qp2 # None /\ thin2_age <= max_age
              THEN At(Val(qp2), thin2_age) ELSE 0)

_SPECIES_TO_REGEN(species) ==
    CASE species \in {"LB", "COLB", "CSLB", "PH", "HH", "SH"} -> "LB"
      [] species \in {"LL", "COLL", "CSLL"} -> "LL"
      [] species \in {"SL", "COSL", "CSSL"} -> "SL"
      [] OTHER -> "LB"

\* Python's order of the characters of a trajectory key
CharOrd(c) ==
    CASE c = "-" -> 45
      [] IsDigit(c) -> 48 + DigitVal(c)
      [] c = "F" -> 70
      [] c = "T" -> 84
      [] OTHER -> 127

\* a < b for two strings
RECURSIVE StrLess(_, _)
StrLess(a, b) ==
    IF Len(b) = 0 THEN FALSE
    ELSE IF Len(a) = 0 THEN TRUE
    ELSE IF Head(a) = Head(b) THEN StrLess(Tail(a), Tail(b))
    ELSE CharOrd(Head(a)) < CharOrd(Head(b))

\* sorted(trajectories)
RECURSIVE Sorted(_)
Sorted(trajectories) ==
    IF trajectories = {} THEN <<>>
    ELSE LET least == CHOOSE t \in trajectories :
                          \A u \in trajectories \ {t} : StrLess(t, u)
         IN  <<least>> \o Sorted(trajectories \ {least})

\* Concatenation of a sequence of sequences
RECURSIVE Flatten(_)
Flatten(seqs) ==
    IF Len(seqs) = 0 THEN <<>> ELSE Head(seqs) \o Flatten(Tail(seqs))

\* The forest stands of the classifier table, in table order
ForestStands(stand_tbl, attrs) ==
    SelectSeq(StandKeys, LAMBDA sk :
        sk \in DOMAIN stand_tbl /\ attrs[sk].IS_FOREST)

\* The override by position: the Yields3 row at the position of the Yields1
\* row of the key
CurrentLookupByPosition(rows1, rows3, sk, traj) ==
    LET at1 == { i \in DOMAIN rows1 :
                   rows1[i].stand_key = sk /\ rows1[i].mgmt_trajectory = traj }
        last == CHOOSE i \in at1 : \A j \in at1 : j <= i
    IN  IF at1 = {} THEN None
        ELSE IF last \in DOMAIN rows3 THEN Num(rows3[last].vol)
        ELSE Num(rows1[last].vol)

\* Yields3 first, laid over Yields1: pine_lookup / hw_lookup are filled from
\* the Yields1 rows and then from the Yields3 rows, each row overwriting the
\* entry of its (stand_key, mgmt_trajectory) key
CurrentLookup(rows1, rows3, sk, traj) ==
    LET s1 == SelectSeq(rows1, LAMBDA r :
                  r.stand_key = sk /\ r.mgmt_trajectory = traj)
        s3 == SelectSeq(rows3, LAMBDA r :
                  r.stand_key = sk /\ r.mgmt_trajectory = traj)
    IN  IF Len(s3) > 0 THEN Num(s3[Len(s3)].vol)
        ELSE IF Len(s1) > 0 THEN Num(s1[Len(s1)].vol)
        ELSE None

\* stand_trajectories[sk]: the trajectories of the keys of pine_lookup and
\* hw_lookup; the empty set stands for the missing dict entry
StandTrajectories(y1, y3, sk) ==
    { r.mgmt_trajectory : r \in
        { y1[i] : i \in { j \in DOMAIN y1 :
              y1[j].stand_key = sk /\ y1[j].Product \in {"P_TOP4M3PA", "H_TOP4M3PA"} } }
        \cup
        { y3[i] : i \in { j \in DOMAIN y3 :
              y3[j].stand_key = sk /\ y3[j].Product \in {"P_TOP4M3PA", "H_TOP4M3PA"} } } }

OrZeros(arr, max_age) == IF arr = None THEN Zeros(max_age) ELSE Val(arr)

\* The qP rows of one stand: qp_lookup[sk], Yields1 rows then Yields3 rows
CurrentQp(y1, y3, sk) ==
    SelectSeq(_extract_volume_by_age(y1, "qP_TOP4M3PA", MAX_AGE_YIELDS1)
                  \o _extract_volume_by_age(y3, "qP_TOP4M3PA", MAX_AGE_YIELDS1),
              LAMBDA r : r.stand_key = sk)

CurveRow(sk, clf, growth_period, traj, leading_species, arr) ==
    [stand_key |-> sk, species |-> clf.species, origin |-> clf.origin,
     si_class |-> clf.si_class, growth_period |-> growth_period,
     mgmt_trajectory |-> traj, leading_species |-> leading_species, vol |-> arr]

\* The softwood and the hardwood row of one (stand, trajectory)
CurrentRows(stand_tbl, y1, y3, sk, traj) ==
    LET max_age == MAX_AGE_YIELDS1
        pine_arr == OrZeros(CurrentLookup(
                        _extract_volume_by_age(y1, "P_TOP4M3PA", max_age),
                        _extract_volume_by_age(y3, "P_TOP4M3PA", max_age),
                        sk, traj), max_age)
        hw_arr == OrZeros(CurrentLookup(
                        _extract_volume_by_age(y1, "H_TOP4M3PA", max_age),
                        _extract_volume_by_age(y3, "H_TOP4M3PA", max_age),
                        sk, traj), max_age)
        qp_adj == _compute_qp_adjustment(traj, CurrentQp(y1, y3, sk), max_age)
        pine_out == IF qp_adj > 0
                    THEN [a \in DOMAIN pine_arr |-> pine_arr[a] + qp_adj]
                    ELSE pine_arr
    IN  << CurveRow(sk, stand_tbl[sk], GROWTH_PERIOD_CURRENT, traj, "Softwood", pine_out),
           CurveRow(sk, stand_tbl[sk], GROWTH_PERIOD_CURRENT, traj, "Hardwood", hw_arr) >>

build_current_yield_curves(stand_tbl, attrs, y1, y3) ==
    LET sks == ForestStands(stand_tbl, attrs)
    IN  Flatten([i \in DOMAIN sks |->
            LET trajs == Sorted(StandTrajectories(y1, y3, sks[i]))
            IN  Flatten([k \in DOMAIN trajs |->
                    CurrentRows(stand_tbl, y1, y3, sks[i], trajs[k])])])

\* si_sp_trajectories[(si, sp)]: the trajectories Yields2 has softwood or
\* hardwood rows for; the empty set stands for the missing dict entry
SiSpTrajectories(y2, si, sp) ==
    { r.mgmt_trajectory : r \in
        { y2[i] : i \in { j \in DOMAIN y2 :
              /\ y2[j].si_value = si
              /\ y2[j].species_code = sp
              /\ y2[j].Product \in {"P_TOP4M3PA", "H_TOP4M3PA"} } } }

\* "Try adjacent SI classes"
SI_OFFSETS == <<5, -5, 10, -10>>

\* The loop over the offsets with the signs swapped: -5, +5, -10, +10
RECURSIVE ProbeLowFirst(_, _, _, _)
ProbeLowFirst(y2, si_rounded, regen_sp, k) ==
    IF k > Len(SI_OFFSETS) THEN None
    ELSE IF SiSpTrajectories(y2, si_rounded - SI_OFFSETS[k], regen_sp) # {}
    THEN Num(si_rounded - SI_OFFSETS[k])
    ELSE ProbeLowFirst(y2, si_rounded, regen_sp, k + 1)

\* The loop over the offsets from position k on: the first class that has
\* trajectories, None when the loop ends without a break
RECURSIVE Probe(_, _, _, _)
Probe(y2, si_rounded, regen_sp, k) ==
    IF k > Len(SI_OFFSETS) THEN None
    ELSE IF SiSpTrajectories(y2, si_rounded + SI_OFFSETS[k], regen_sp) # {}
    THEN Num(si_rounded + SI_OFFSETS[k])
    ELSE Probe(y2, si_rounded, regen_sp, k + 1)

\* The site-index class build_regen_yield_curves takes the curves of a stand
\* from: None when the stand is skipped
RegenClass(y2, si_raw, species) ==
    LET regen_sp == _SPECIES_TO_REGEN(species)
        si_rounded == yc_round_si(si_raw)
    IN  IF SiSpTrajectories(y2, si_rounded, regen_sp) # {}
        THEN Num(si_rounded)
        ELSE Probe(y2, si_rounded, regen_sp, 1)

RegenLookup(rows, si, sp, traj) ==
    LET s == SelectSeq(rows, LAMBDA r :
                 r.si_value = si /\ r.species_code = sp /\ r.mgmt_trajectory = traj)
    IN  IF Len(s) > 0 THEN Num(s[Len(s)].vol) ELSE None

\* The 50 regen columns, then the zeros of np.zeros(MAX_AGE_YIELDS1)
PadZeros(arr) ==
    [a \in _age_cols(MAX_AGE_YIELDS1) |->
        IF a <= MAX_AGE_YIELDS2 THEN arr[a] ELSE 0]

\* pine_full / hw_full: the 50 regen columns, then the last one repeated
PadFlat(arr) ==
    [a \in _age_cols(MAX_AGE_YIELDS1) |->
        IF a <= MAX_AGE_YIELDS2 THEN arr[a] ELSE arr[MAX_AGE_YIELDS2]]

RegenRows(stand_tbl, y2, sk, si, traj) ==
    LET max_age == MAX_AGE_YIELDS2
        regen_sp == _SPECIES_TO_REGEN(stand_tbl[sk].species)
        pine_arr == OrZeros(RegenLookup(
                        _extract_volume_by_age(y2, "P_TOP4M3PA", max_age),
                        si, regen_sp, traj), max_age)
        hw_arr == OrZeros(RegenLookup(
                        _extract_volume_by_age(y2, "H_TOP4M3PA", max_age),
                        si, regen_sp, traj), max_age)
        si_sp_qp == SelectSeq(_extract_volume_by_age(y2, "qP_TOP4M3PA", max_age),
                        LAMBDA r : r.si_value = si /\ r.species_code = regen_sp)
        qp_adj == _compute_qp_adjustment(traj, si_sp_qp, max_age)
        pine_full == PadFlat(pine_arr)
        pine_out == IF qp_adj > 0
                    THEN [a \in DOMAIN pine_full |-> pine_full[a] + qp_adj]
                    ELSE pine_full
    IN  << CurveRow(sk, stand_tbl[sk], GROWTH_PERIOD_POST_REGEN, traj, "Softwood", pine_out),
           CurveRow(sk, stand_tbl[sk], GROWTH_PERIOD_POST_REGEN, traj, "Hardwood",
                    PadFlat(hw_arr)) >>

build_regen_yield_curves(stand_tbl, attrs, y2) ==
    LET sks == ForestStands(stand_tbl, attrs)
    IN  Flatten([i \in DOMAIN sks |->
            LET cls == RegenClass(y2, attrs[sks[i]].si_raw, stand_tbl[sks[i]].species)
            IN  IF cls = None THEN <<>>
                ELSE LET trajs == Sorted(SiSpTrajectories(y2, Val(cls),
                                      _SPECIES_TO_REGEN(stand_tbl[sks[i]].species)))
                     IN  Flatten([k \in DOMAIN trajs |->
                             RegenRows(stand_tbl, y2, sks[i], Val(cls), trajs[k])])])

\* np.round(x, 4) of a volume held in 10^-5: the nearest multiple of 10,
\* ties to the even one
Round4(v) ==
    LET q == v \div 10
        r == v % 10
    IN  IF r < 5 THEN q ELSE IF r > 5 THEN q + 1
        ELSE IF q % 2 = 0 THEN q ELSE q + 1

\* The columns drop_duplicates compares: the five classifiers, the product
\* and the hash of the rounded volumes (equal volumes, equal hash)
DedupKey(row) ==
    << row.species, row.origin, row.si_class, row.growth_period,
       row.mgmt_trajectory, row.leading_species,
       [a \in DOMAIN row.vol |-> Round4(row.vol[a])] >>

deduplicate_curves(df) ==
    LET keep == { i \in DOMAIN df :
                    \A j \in 1..(i - 1) : DedupKey(df[j]) # DedupKey(df[i]) }
        kept == SelectSeq([i \in DOMAIN df |-> <<i, df[i]>>],
                          LAMBDA p : p[1] \in keep)
    IN  [k \in DOMAIN kept |->
            [yield_curve_id |-> k, row |-> kept[k][2]]]

\* 03_yield_curves.run
yield_curves_run(stand_tbl, attrs, y1, y2, y3) ==
    deduplicate_curves(build_current_yield_curves(stand_tbl, attrs, y1, y3)
                           \o build_regen_yield_curves(stand_tbl, attrs, y2))

(***************************************************************************)
(* aidb_disturbance_manager.py                                             *)
(*                                                                         *)
(* The archive database is the record aidb of its tables, each a sequence  *)
(* of rows in insertion order.  A proportion and a percentage are exact    *)
(* fractions <<numerator, denominator>> in lowest terms; the rounding of   *)
(* the floating point operations (far below the tolerance of the row-sum   *)
(* check) is left out.                                                     *)
(***************************************************************************)
RECURSIVE GCD(_, _)
GCD(a, b) == IF b = 0 THEN a ELSE GCD(b, a % b)

Frac(n, d) ==
    LET g == GCD(IF n < 0 THEN -n ELSE n, d)
    IN  IF n = 0 THEN <<0, 1>> ELSE <<n \div g, d \div g>>

FMul(x, y) == Frac(x[1] * y[1], x[2] * y[2])
FDiv(x, y) == Frac(x[1] * y[2], x[2] * y[1])
FAdd(x, y) == Frac(x[1] * y[2] + y[1] * x[2], x[2] * y[2])
FSub(x, y) == Frac(x[1] * y[2] - y[1] * x[2], x[2] * y[2])
FAbs(x) == IF x[1] < 0 THEN <<-x[1], x[2]>> ELSE x
FGreater(x, y) == x[1] * y[2] > y[1] * x[2]
ONE == <<1, 1>>

RECURSIVE FSum(_)
FSum(ps) == IF Len(ps) = 0 THEN <<0, 1>> ELSE FAdd(Head(ps), FSum(Tail(ps)))

TEMPLATES ==
    [precommercial |-> [dmid |-> 20136, base_pct |-> Frac(85, 100),
                        dm_structure_id |-> 2],
     commercial    |-> [dmid |-> 20112, base_pct |-> Frac(50, 100),
                        dm_structure_id |-> 2]]

\* abs(value - 1) > 0.001
ROW_SUM_TOLERANCE == Frac(1, 1000)

UPPERCASE == "ABCDEFGHIJKLMNOPQRSTUVWXYZ"
LOWERCASE == "abcdefghijklmnopqrstuvwxyz"

RECURSIVE Lower(_)
Lower(s) ==
    IF Len(s) = 0 THEN ""
    ELSE LET c == SubSeq(s, 1, 1)
             up == { i \in 1..26 : SubSeq(UPPERCASE, i, i) = c }
         IN  (IF up = {} THEN c
              ELSE LET i == CHOOSE k \in up : TRUE IN SubSeq(LOWERCASE, i, i))
             \o Lower(Tail(s))

RECURSIVE LStrip(_)
LStrip(s) ==
    IF Len(s) > 0 /\ SubSeq(s, 1, 1) = " " THEN LStrip(Tail(s)) ELSE s

RECURSIVE RStrip(_)
RStrip(s) ==
    IF Len(s) > 0 /\ SubSeq(s, Len(s), Len(s)) = " "
    THEN RStrip(SubSeq(s, 1, Len(s) - 1)) ELSE s

Strip(s) == RStrip(LStrip(s))

\* SELECT MAX(col): 0 for an empty table
fetch_max(ids) ==
    IF ids = {} THEN 0 ELSE CHOOSE m \in ids : \A n \in ids : n <= m

\* The dict of get_existing_disturbances as the function from its keys; the
\* first row of a key is kept, the DMID is that of the first association row
ExistingKeys(db) ==
    { Strip(Lower(db.tblDisturbanceTypeDefault[i].DistTypeName)) :
        i \in { j \in DOMAIN db.tblDisturbanceTypeDefault :
                  db.tblDisturbanceTypeDefault[j].DistTypeName # "" } }

get_existing_disturbances(db) ==
    [key \in ExistingKeys(db) |->
        LET rows == SelectSeq(db.tblDisturbanceTypeDefault, LAMBDA r :
                        r.DistTypeName # ""
                        /\ Strip(Lower(r.DistTypeName)) = key)
            row == rows[1]
            assoc_match == SelectSeq(db.tblDMAssociationDefault, LAMBDA r :
                               r.DefaultDisturbanceTypeID = row.DistTypeID)
        IN  [dist_type_id |-> row.DistTypeID,
             dmid |-> IF Len(assoc_match) > 0 THEN Num(assoc_match[1].DMID) ELSE None,
             name |-> row.DistTypeName]]

Triple(r) == [DMRow |-> r.DMRow, DMColumn |-> r.DMColumn, Proportion |-> r.Proportion]

\* The rows with Proportion <> 1 of the newest matrix of the table
NewestMatrixRows(db, copyID) ==
    SelectSeq(db.tblDMValuesLookup, LAMBDA r :
        /\ r.Proportion # ONE
        /\ \A i \in DOMAIN db.tblDMValuesLookup :
               db.tblDMValuesLookup[i].DMID <= r.DMID)

\* df: the rows of the template with Proportion <> 1
TemplateRows(db, copyID) ==
    SelectSeq(db.tblDMValuesLookup, LAMBDA r : r.DMID = copyID /\ r.Proportion # ONE)

\* dfSinkPool with the diagonal rows of the template left in
SinkPoolWithDiagonal(db, copyID, startVal, endVal) ==
    LET sub == TemplateRows(db, copyID)
    IN  [i \in DOMAIN sub |->
            [DMRow |-> sub[i].DMRow, DMColumn |-> sub[i].DMColumn,
             Proportion |-> FMul(FDiv(endVal, startVal), sub[i].Proportion)]]

\* dfSinkPool: the non-diagonal rows of df, scaled by endVal / startVal
SinkPool(db, copyID, startVal, endVal) ==
    LET sub == SelectSeq(TemplateRows(db, copyID), LAMBDA r : r.DMRow # r.DMColumn)
    IN  [i \in DOMAIN sub |->
            [DMRow |-> sub[i].DMRow, DMColumn |-> sub[i].DMColumn,
             Proportion |-> FMul(FDiv(endVal, startVal), sub[i].Proportion)]]

\* groupby(key)["Proportion"].sum(): the pools in increasing order
PoolsOf(rows) == { rows[i].DMRow : i \in DOMAIN rows }

RECURSIVE Ascending(_)
Ascending(pools) ==
    IF pools = {} THEN <<>>
    ELSE LET least == CHOOSE p \in pools : \A q \in pools : p <= q
         IN  <<least>> \o Ascending(pools \ {least})

PoolSum(rows, pool) ==
    LET sub == SelectSeq(rows, LAMBDA r : r.DMRow = pool)
    IN  FSum([i \in DOMAIN sub |-> sub[i].Proportion])

\* dfSourcePool: one diagonal row per pool of dfSinkPool
SourcePool(sink) ==
    LET pools == Ascending(PoolsOf(sink))
    IN  [i \in DOMAIN pools |->
            [DMRow |-> pools[i], DMColumn |-> pools[i],
             Proportion |-> FSub(ONE, PoolSum(sink, pools[i]))]]

\* dfStablePool: the rows of the template with Proportion = 1
StablePool(db, copyID) ==
    LET sub == SelectSeq(db.tblDMValuesLookup,
                         LAMBDA r : r.DMID = copyID /\ r.Proportion = ONE)
    IN  [i \in DOMAIN sub |-> Triple(sub[i])]

\* The stable and the scaled rows without the recomputed diagonal
ScaledMatrixWithoutSourcePool(db, category, target_pct) ==
    LET template == TEMPLATES[category]
    IN  StablePool(db, template.dmid)
            \o SinkPool(db, template.dmid, template.base_pct, target_pct)

\* dfDMValuesUpdate before the DMID column is set
ScaledMatrix(db, category, target_pct) ==
    LET template == TEMPLATES[category]
        sink == SinkPool(db, template.dmid, template.base_pct, target_pct)
    IN  StablePool(db, template.dmid) \o sink \o SourcePool(sink)

\* "Validate: each row should sum to 1": TRUE when the warning is printed
RowSumWarning(matrix) ==
    \E pool \in PoolsOf(matrix) :
        FGreater(FAbs(FSub(PoolSum(matrix, pool), ONE)), ROW_SUM_TOLERANCE)

\* The four frames create_scaled_disturbance appends, in the order of the
\* to_sql calls, and whether the row-sum warning is printed
create_scaled_disturbance(db, name, target_pct, category, new_dmid, new_dist_type_id) ==
    LET matrix == ScaledMatrix(db, category, target_pct)
        eco == db.tblEcoBoundaryDefault
    IN  [warned |-> RowSumWarning(matrix),
         frames |-> <<
           [tbl |-> "tblDMValuesLookup",
            rows |-> [i \in DOMAIN matrix |->
                        [DMID |-> new_dmid, DMRow |-> matrix[i].DMRow,
                         DMColumn |-> matrix[i].DMColumn,
                         Proportion |-> matrix[i].Proportion]]],
           [tbl |-> "tblDM",
            rows |-> << [DMID |-> new_dmid, Name |-> name, Description |-> name,
                         DMStructureID |-> TEMPLATES[category].dm_structure_id] >>],
           [tbl |-> "tblDisturbanceTypeDefault",
            rows |-> << [DistTypeID |-> new_dist_type_id, DistTypeName |-> name,
                         OnOffSwitch |-> TRUE, Description |-> name,
                         IsStandReplacing |-> FALSE, IsMultiYear |-> FALSE,
                         MultiYearCount |-> 0] >>],
           [tbl |-> "tblDMAssociationDefault",
            rows |-> [i \in DOMAIN eco |->
                        [DefaultDisturbanceTypeID |-> new_dist_type_id,
                         AnnualOrder |-> 1, DMID |-> new_dmid,
                         DefaultEcoBoundaryID |-> eco[i].EcoBoundaryID,
                         Name |-> name \o "-" \o eco[i].EcoBoundaryName,
                         Description |-> name]] ] >>]

\* DataFrame.to_sql(..., if_exists="append")
ToSql(db, frame) ==
    [t \in DOMAIN db |-> IF t = frame.tbl THEN db[t] \o frame.rows ELSE db[t]]

RECURSIVE AppendFrames(_, _, _)
AppendFrames(db, frames, n) ==
    IF n = 0 THEN db
    ELSE ToSql(AppendFrames(db, frames, n - 1), frames[n])

\* The four appends with each one committed by itself: the appends before
\* the failing one stay
AppendEachCommitted(db, frames, failing) ==
    IF failing = 0 THEN AppendFrames(db, frames, Len(frames))
    ELSE AppendFrames(db, frames, failing - 1)

\* "with engine.begin() as c": the four appends in one transaction.  failing
\* is 0 when every append succeeds and the transaction commits, else the
\* number of the append that raises: the transaction is rolled back.
Transaction(db, frames, failing) ==
    IF failing = 0 THEN AppendFrames(db, frames, Len(frames))
    ELSE db

\* result[name] = entry
Store(result, name, entry) ==
    [n \in DOMAIN result \cup {name} |-> IF n = name THEN entry ELSE result[n]]

\* spec.get('percent') / spec.get('category'): None when the key is missing
Get(spec, key) == IF key \in DOMAIN spec THEN Num(spec[key]) ELSE None

(***************************************************************************)
(* aidb_disturbance_manager.ensure_disturbances_exist: the call, one       *)
(* action for the statements before the loop, one for each pass of the     *)
(* loop (create_scaled_disturbance and its transaction included), one for  *)
(* the return                                                              *)
(***************************************************************************)
IdleCall ==
    [pc |-> "idle", disturbance_specs |-> <<>>, dry_run |-> FALSE, i |-> 0,
     existing |-> <<>>, base_dmid |-> 0, base_dist_type_id |-> 0, idx |-> 0,
     result |-> <<>>, warnings_list |-> <<>>, printed |-> <<>>]

\* A skipped item that takes the next pair of identifiers all the same
SkippedTakingIds(e, name, category, warning) ==
    [e EXCEPT
        !.i = e.i + 1,
        !.idx = e.idx + 1,
        !.warnings_list = Append(e.warnings_list,
                              [name |-> name, warning |-> warning]),
        !.result = Store(e.result, name,
            [dmid |-> Num(e.base_dmid + e.idx + 1),
             dist_type_id |-> Num(e.base_dist_type_id + e.idx + 1),
             created |-> FALSE, category |-> category, warning |-> warning])]

\* The two branches that skip an item: the warning is appended, the result
\* entry has no identifiers, the loop continues with the next item
Skipped(e, name, category, warning) ==
    [e EXCEPT
        !.i = e.i + 1,
        !.warnings_list = Append(e.warnings_list,
                              [name |-> name, warning |-> warning]),
        !.result = Store(e.result, name,
            [dmid |-> None, dist_type_id |-> None, created |-> FALSE,
             category |-> category, warning |-> warning])]

\* The statements of one pass of the loop for disturbance_specs[e.i];
\* failing is the outcome of the transaction when the pass reaches it
LoopPass(db, e, failing) ==
    LET spec == e.disturbance_specs[e.i]
        name == Strip(IF "name" \in DOMAIN spec THEN spec.name ELSE "")
        percent == Get(spec, "percent")
        category == Get(spec, "category")
        key == Lower(name)
        next == [e EXCEPT !.i = e.i + 1]
        new_dmid == e.base_dmid + e.idx + 1
        new_dist_type_id == e.base_dist_type_id + e.idx + 1
    IN  IF name = "" THEN [aidb |-> db, ensure |-> next]
        ELSE IF key \in DOMAIN e.existing
        THEN [aidb |-> db,
              ensure |-> [next EXCEPT !.result = Store(e.result, name,
                  [dmid |-> e.existing[key].dmid,
                   dist_type_id |-> Num(e.existing[key].dist_type_id),
                   created |-> FALSE, category |-> category])]]
        ELSE IF percent = None \/ category = None
        THEN [aidb |-> db,
              ensure |-> Skipped(e, name, None,
                             "Not found and no scaling parameters provided")]
        ELSE IF Val(category) \notin DOMAIN TEMPLATES
        THEN [aidb |-> db,
              ensure |-> Skipped(e, name, category, "Unknown category")]
        ELSE IF e.dry_run
        THEN [aidb |-> db,
              ensure |-> [next EXCEPT
                  !.idx = e.idx + 1,
                  !.result = Store(e.result, name,
                      [dmid |-> Num(new_dmid), dist_type_id |-> Num(new_dist_type_id),
                       created |-> TRUE, category |-> category, dry_run |-> TRUE]),
                  !.printed = Append(e.printed,
                      [line |-> "[DRY RUN] Would create", name |-> name,
                       dmid |-> new_dmid, dist_type_id |-> new_dist_type_id])]]
        ELSE LET made == create_scaled_disturbance(db, name, Val(percent),
                             Val(category), new_dmid, new_dist_type_id)
                 warned == IF made.warned
                           THEN Append(e.printed,
                                    [line |-> "WARNING: Matrix row sums don't equal 1",
                                     name |-> name, dmid |-> new_dmid,
                                     dist_type_id |-> new_dist_type_id])
                           ELSE e.printed
             IN  IF failing = 0
                 THEN [aidb |-> Transaction(db, made.frames, failing),
                       ensure |-> [next EXCEPT
                           !.idx = e.idx + 1,
                           !.result = Store(e.result, name,
                               [dmid |-> Num(new_dmid),
                                dist_type_id |-> Num(new_dist_type_id),
                                created |-> TRUE, category |-> category]),
                           !.printed = Append(warned,
                               [line |-> "Created", name |-> name,
                                dmid |-> new_dmid,
                                dist_type_id |-> new_dist_type_id])]]
                 ELSE [aidb |-> Transaction(db, made.frames, failing),
                       ensure |-> [e EXCEPT !.pc = "raised", !.idx = e.idx + 1,
                                            !.printed = warned]]

\* Whether the pass for disturbance_specs[e.i] reaches the transaction
Creates(e) ==
    LET spec == e.disturbance_specs[e.i]
        name == Strip(IF "name" \in DOMAIN spec THEN spec.name ELSE "")
    IN  /\ name # ""
        /\ Lower(name) \notin DOMAIN e.existing
        /\ Get(spec, "percent") # None
        /\ Get(spec, "category") # None
        /\ Val(Get(spec, "category")) \in DOMAIN TEMPLATES
        /\ ~e.dry_run

(***************************************************************************)
(* run_pipeline.main, steps 2, 3, 5 and 6: the calls, one action each      *)
(***************************************************************************)
AssignClassifiers ==
    /\ pc = "read"
    /\ stands' = assign_classifiers(spatial, condition_initial)
    /\ stand_attrs' = ClassifierAttrs(spatial, condition_initial)
    /\ pc' = "ingested"
    /\ UNCHANGED <<schedule, cond_area, yields1, yields3, yields2, curves,
                   events, n_warnings, rules, rules_df, aidb_vars, ingest_vars>>

BuildYieldCurves ==
    /\ pc = "ingested"
    /\ curves' = yield_curves_run(stands, stand_attrs, yields1, yields2, yields3)
    /\ pc' = "curves"
    /\ UNCHANGED <<schedule, cond_area, stands, stand_attrs, yields1, yields3,
                   yields2, events, n_warnings, rules, rules_df, aidb_vars, ingest_vars>>

ExtractDisturbanceEvents ==
    /\ pc = "curves"
    /\ events' = extract_disturbance_events(schedule)
    /\ pc' = "extracted"
    /\ UNCHANGED <<schedule, cond_area, stands, stand_attrs, yields1, yields3,
                   yields2, curves, n_warnings, rules, rules_df, aidb_vars, ingest_vars>>

ClassifyPartialClearcuts ==
    /\ pc = "extracted"
    /\ events' = classify_partial_clearcuts(events, cond_area)
    /\ pc' = "classified"
    /\ UNCHANGED <<schedule, cond_area, stands, stand_attrs, yields1, yields3,
                   yields2, curves, n_warnings, rules, rules_df, aidb_vars, ingest_vars>>

CalcThinningPct ==
    /\ pc = "classified"
    /\ LET r == calc_thinning_pct(events, yields1, yields3, yields2)
       IN  /\ events' = r.events
           /\ n_warnings' = r.n_warnings
    /\ pc' = "pct"
    /\ UNCHANGED <<schedule, cond_area, stands, stand_attrs, yields1, yields3,
                   yields2, curves, rules, rules_df, aidb_vars, ingest_vars>>

BuildTransitionRules ==
    /\ pc = "pct"
    /\ rules' = RuleList(events, stands)
    /\ rules_df' = DropDuplicates(RuleList(events, stands))
    /\ pc' = "rules"
    /\ UNCHANGED <<schedule, cond_area, stands, stand_attrs, yields1, yields3,
                   yields2, curves, events, n_warnings, aidb_vars, ingest_vars>>

Next ==
    \/ BuildYieldCurves
    \/ ExtractDisturbanceEvents
    \/ ClassifyPartialClearcuts
    \/ CalcThinningPct
    \/ BuildTransitionRules

(***************************************************************************)
(* Inputs                                                                  *)
(***************************************************************************)
\* One row of the schedule as load_schedule leaves it.  thin1/thin2 hold the
\* state before the action (docstring of calc_thinning_pct).
Row(sk, year, action, age, area, thin1, thin2, fert1, species, si) ==
    [stand_key |-> sk, YEAR |-> year, action |-> action, AGE |-> age,
     AREA |-> area, species |-> species, si |-> si,
     thin1 |-> thin1, thin2 |-> thin2, fert1 |-> fert1, fert2 |-> 0]

\* Every schedule of 1..n rows drawn from a set of rows, in any file order
Schedules(rows, n) == UNION { [1..k -> rows] : k \in 1..n }

ZERO_TRAJ == "T1-0-T2-0-F1-0-F2-0"

Classifiers(species, traj) ==
    [species |-> species, origin |-> "PY", si_class |-> "SI70",
     growth_period |-> GROWTH_PERIOD_CURRENT, mgmt_trajectory |-> traj]

DefaultStands == [sk \in StandSet |-> Classifiers("LB", ZERO_TRAJ)]
DefaultAreas == [sk \in StandSet |-> 100]

\* The si_raw and IS_FOREST columns: site index 70, every stand a forest stand
DefaultAttrs == [sk \in StandSet |-> [si_raw |-> Num(70), IS_FOREST |-> TRUE]]

\* The archive database is not part of a run without --aidb-path
NoArchive ==
    /\ aidb = [tblDMValuesLookup |-> <<>>, tblDM |-> <<>>,
               tblDisturbanceTypeDefault |-> <<>>,
               tblDMAssociationDefault |-> <<>>, tblEcoBoundaryDefault |-> <<>>]
    /\ ensure = IdleCall

\* The classifier step has run: its inputs are not read again
InputsRead ==
    /\ spatial = <<>>
    /\ condition_initial = <<>>

StartWith(sched, areas, stand_tbl, attrs, y1, y3, y2) ==
    /\ InputsRead
    /\ pc = "ingested"
    /\ schedule = sched
    /\ cond_area = areas
    /\ stands = stand_tbl
    /\ stand_attrs = attrs
    /\ yields1 = y1
    /\ yields3 = y3
    /\ yields2 = y2
    /\ curves = <<>>
    /\ events = <<>>
    /\ n_warnings = 0
    /\ rules = <<>>
    /\ rules_df = <<>>
    /\ NoArchive

Start(sched, areas, stand_tbl, y1, y3, y2) ==
    StartWith(sched, areas, stand_tbl, DefaultAttrs, y1, y3, y2)

(***************************************************************************)
(* Rotation tagging: schedules of two stands with clearcuts and thins in   *)
(* any file order, with a clearcut and a thin of one stand in one year     *)
(***************************************************************************)
MaxTagRows == 4

TagRows ==
    { Row("S1", 2030, "aHCC",    29, 100, 0, 0, 0, "LB", 70),
      Row("S1", 2045, "aHTHIN1", 15, 100, 0, 0, 0, "LB", 70),
      Row("S1", 2030, "aHTHIN2", 29, 100, 19, 0, 0, "LB", 70),
      Row("S1", 2031, "aPLT",     1, 100, 0, 0, 0, "LB", 70),
      Row("S2", 2020, "aHTHIN1", 19, 100, 0, 0, 0, "LB", 70),
      Row("S2", 2035, "aHCC",    34, 100, 19, 0, 0, "LB", 70),
      Row("S2", 2045, "aHTHIN2", 10, 100, 0, 0, 0, "LB", 70),
      Row("S2", 2035, "aSP",      0, 100, 0, 0, 0, "LB", 70) }

InitTag ==
    \E sched \in Schedules(TagRows, MaxTagRows) :
        Start(sched, DefaultAreas, DefaultStands, <<>>, <<>>, <<>>)

SpecTag == InitTag /\ [][Next]_vars

(***************************************************************************)
(* Partial clearcuts: clearcuts of one stand with year gaps of 1, 10, 11   *)
(* and 14 and areas below, at and above 95% of the stand area; a second    *)
(* stand; stand areas of 100, 3, 0 and a stand the condition file lacks    *)
(***************************************************************************)
MaxPartialRows == 3

PartialRows ==
    { Row("S1", 2030, "aHCC", 29, 40,  0, 0, 0, "LB", 70),
      Row("S1", 2031, "aHCC", 30, 60,  0, 0, 0, "LB", 70),
      Row("S1", 2045, "aHCC", 14, 100, 0, 0, 0, "LB", 70),
      Row("S1", 2041, "aHCC", 40, 95,  0, 0, 0, "LB", 70),
      Row("S1", 2030, "aHCC", 29, 100, 0, 0, 0, "LB", 70),
      Row("S1", 2041, "aHCC", 40, 94,  0, 0, 0, "LB", 70),
      Row("S1", 2031, "aHCC", 30, 1,   0, 0, 0, "LB", 70),
      Row("S1", 2035, "aHTHIN1", 15, 100, 0, 0, 0, "LB", 70),
      Row("S2", 2030, "aHCC", 29, 40,  0, 0, 0, "LB", 70),
      Row("S2", 2031, "aHCC", 30, 100, 0, 0, 0, "LB", 70) }

PartialAreas ==
    { [sk \in StandSet |-> 100],
      [sk \in StandSet |-> IF sk = "S1" THEN 3 ELSE 100],
      [sk \in StandSet |-> IF sk = "S1" THEN 0 ELSE 100],
      [sk \in {"S2"} |-> 100] }

InitPartial ==
    \E sched \in Schedules(PartialRows, MaxPartialRows), areas \in PartialAreas :
        Start(sched, areas, DefaultStands, <<>>, <<>>, <<>>)

SpecPartial == InitPartial /\ [][Next]_vars

(***************************************************************************)
(* Removal percentages: first and second thins of both rotations, a stand  *)
(* without curves, an age beyond the regen curves, a split clearcut; the   *)
(* yields tables with and without a Yields3 override, removed-hardwood     *)
(* rows and regen curves                                                   *)
(***************************************************************************)
MaxPctRows == 3

PctRows ==
    { Row("S1", 2020, "aHTHIN1", 19, 100, 0,  0, 0, "COLB", 68),
      Row("S1", 2026, "aHTHIN2", 25, 100, 19, 0, 0, "COLB", 68),
      Row("S1", 2029, "aHCC",    28, 40,  0,  0, 0, "COLB", 68),
      Row("S1", 2030, "aHCC",    29, 100, 0,  0, 0, "COLB", 68),
      Row("S1", 2031, "aSP",     0,  100, 0,  0, 0, "COLB", 68),
      Row("S1", 2045, "aHTHIN1", 15, 100, 0,  0, 0, "COLB", 68),
      Row("S1", 2050, "aHTHIN1", 60, 100, 0,  0, 0, "COLB", 68),
      Row("S2", 2020, "aHTHIN1", 19, 100, 0,  0, 0, "LB", 70) }

YRow(sk, traj, product, ages, v) ==
    [stand_key |-> sk, mgmt_trajectory |-> traj, Product |-> product,
     vol |-> [a \in ages |-> v]]

Y2Row(si, sp, traj, product, ages, v) ==
    [si_value |-> si, species_code |-> sp, mgmt_trajectory |-> traj,
     Product |-> product, vol |-> [a \in ages |-> v]]

CurveAges == {15, 19, 25, 60}
T19 == "T1-19-T2-0-F1-0-F2-0"
T19_25 == "T1-19-T2-25-F1-0-F2-0"
T15 == "T1-15-T2-0-F1-0-F2-0"

\* Yields1 of S1: the hardwood rows have no value at age 25; the
\* removed-hardwood rows are there or not
Yields1Of(with_qh) ==
    << YRow("S1", ZERO_TRAJ, "P_TOP4M3PA",  CurveAges, 100),
       YRow("S1", T19,       "P_TOP4M3PA",  CurveAges, 100),
       YRow("S1", T19_25,    "P_TOP4M3PA",  CurveAges, 70),
       YRow("S1", ZERO_TRAJ, "H_TOP4M3PA",  CurveAges \ {25}, 60),
       YRow("S1", T19,       "H_TOP4M3PA",  CurveAges \ {25}, 60),
       YRow("S1", ZERO_TRAJ, "qP_TOP4M3PA", CurveAges, 0),
       YRow("S1", T19,       "qP_TOP4M3PA", CurveAges, 40),
       YRow("S1", T19_25,    "qP_TOP4M3PA", CurveAges, 30) >>
    \o (IF with_qh
        THEN << YRow("S1", T19,    "qH_TOP4M3PA", CurveAges, 20),
                YRow("S1", T19_25, "qH_TOP4M3PA", CurveAges, 20) >>
        ELSE <<>>)

\* Yields3 of S1: absent, or softwood p with no hardwood
Yields3Of(p) ==
    IF p < 0 THEN <<>>
    ELSE << YRow("S1", ZERO_TRAJ, "P_TOP4M3PA",  CurveAges, p),
            YRow("S1", T19,       "P_TOP4M3PA",  CurveAges, p),
            YRow("S1", ZERO_TRAJ, "H_TOP4M3PA",  CurveAges, 0),
            YRow("S1", T19,       "H_TOP4M3PA",  CurveAges, 0),
            YRow("S1", T19,       "qP_TOP4M3PA", CurveAges, 40) >>

Yields2Of(present) ==
    IF ~present THEN <<>>
    ELSE << Y2Row(70, "LB", ZERO_TRAJ, "P_TOP4M3PA",  CurveAges \ {60}, 90),
            Y2Row(70, "LB", ZERO_TRAJ, "H_TOP4M3PA",  CurveAges \ {60}, 10),
            Y2Row(70, "LB", T15,       "qP_TOP4M3PA", CurveAges \ {60}, 25),
            Y2Row(70, "LB", T15,       "qH_TOP4M3PA", CurveAges \ {60}, 5) >>

InitPct ==
    \E sched \in Schedules(PctRows, MaxPctRows),
       with_qh \in BOOLEAN, p3 \in {-1, 0, 120, 30}, with_y2 \in BOOLEAN :
        Start(sched, DefaultAreas, DefaultStands,
              Yields1Of(with_qh), Yields3Of(p3), Yields2Of(with_y2))

SpecPct == InitPct /\ [][Next]_vars

(***************************************************************************)
(* Transition rules: thins and clearcuts of two stands, a split clearcut,  *)
(* a site preparation; classifier tables with mapped and unmapped species, *)
(* a stand thinned before the schedule starts, equal and different tuples  *)
(* for the two stands, and a stand the classifier table lacks              *)
(***************************************************************************)
MaxTransRows == 3

TransRows ==
    { Row("S1", 2020, "aHTHIN1", 19, 100, 0,  0, 0, "LB", 70),
      Row("S1", 2026, "aHTHIN2", 25, 100, 19, 0, 0, "LB", 70),
      Row("S1", 2029, "aHCC",    28, 40,  0,  0, 0, "LB", 70),
      Row("S1", 2030, "aHCC",    29, 100, 0,  0, 0, "LB", 70),
      Row("S1", 2031, "aSP",     0,  100, 0,  0, 0, "LB", 70),
      Row("S1", 2045, "aHTHIN1", 15, 100, 0,  0, 0, "LB", 70),
      Row("S2", 2020, "aHTHIN1", 19, 100, 0,  0, 0, "LB", 70),
      Row("S2", 2027, "aHTHIN2", 27, 100, 21, 0, 0, "LB", 70),
      Row("S2", 2030, "aHCC",    29, 100, 0,  0, 0, "LB", 70) }

TransStands ==
    { [sk \in StandSet |->
          IF sk = "S1" THEN Classifiers(sp1, traj1) ELSE Classifiers("LB", ZERO_TRAJ)] :
        sp1 \in {"LB", "COLB", "CSSL", "UD"}, traj1 \in {ZERO_TRAJ, T19} }
    \cup
    { [sk \in StandSet |->
          IF sk = "S1" THEN Classifiers(sp1, ZERO_TRAJ) ELSE Classifiers("PH", ZERO_TRAJ)] :
        sp1 \in {"LB", "COLB"} }
    \cup
    { [sk \in {"S1"} |-> Classifiers(sp1, ZERO_TRAJ)] : sp1 \in {"LB", "COLB"} }

InitTrans ==
    \E sched \in Schedules(TransRows, MaxTransRows), stand_tbl \in TransStands :
        Start(sched, DefaultAreas, stand_tbl, Yields1Of(FALSE), <<>>, <<>>)

SpecTrans == InitTrans /\ [][Next]_vars

(***************************************************************************)
(* Yield curve resolution: Yields1 with and without the rows of the        *)
(* once-thinned trajectory, Yields3 absent or with rows in another order   *)
(* than Yields1; regen curves of any subset of five site-index classes,    *)
(* each class with its own volumes; stand S1 with a site index on a class  *)
(* and one between two classes; thins of both rotations                    *)
(***************************************************************************)
MaxCurveRows == 2

CurveSiteIndexes == {70, 63}

CurveRows(si) ==
    { Row("S1", 2020, "aHTHIN1", 19, 100, 0,  0, 0, "LB", si),
      Row("S1", 2026, "aHTHIN2", 25, 100, 19, 0, 0, "LB", si),
      Row("S1", 2030, "aHCC",    29, 100, 0,  0, 0, "LB", si),
      Row("S1", 2045, "aHTHIN1", 15, 100, 0,  0, 0, "LB", si) }

\* Yields1 of S1 with the rows of the trajectories in keep
CurveYields1(keep) ==
    SelectSeq(Yields1Of(FALSE), LAMBDA r : r.mgmt_trajectory \in keep)

\* A row with the volumes of a curve that changes with age
WithVol(row, vol) == [row EXCEPT !.vol = vol]

\* Removed-softwood rows of S1 whose volume differs from age to age and from
\* the once-thinned to the twice-thinned variant
RemovedByAge ==
    << WithVol(YRow("S1", T19, "qP_TOP4M3PA", CurveAges, 0),
               (15 :> 1) @@ (19 :> 40) @@ (25 :> 2) @@ (60 :> 3)),
       WithVol(YRow("S1", T19_25, "qP_TOP4M3PA", CurveAges, 0),
               (15 :> 4) @@ (19 :> 5) @@ (25 :> 30) @@ (60 :> 6)) >>

\* The (Yields1, Yields3) pairs: a Yields3 row overrides the Yields1 row of
\* its key wherever the two rows sit
CurveYields ==
    { << CurveYields1({ZERO_TRAJ, T19, T19_25}), <<>> >>,
      << CurveYields1({ZERO_TRAJ, T19, T19_25}),
         << YRow("S1", T19, "P_TOP4M3PA", CurveAges, 130) >> >>,
      << CurveYields1({ZERO_TRAJ, T19, T19_25}),
         << YRow("S1", T19,       "H_TOP4M3PA", CurveAges, 5),
            YRow("S1", T19,       "P_TOP4M3PA", CurveAges, 130),
            YRow("S1", ZERO_TRAJ, "P_TOP4M3PA", CurveAges, 120),
            YRow("S2", ZERO_TRAJ, "P_TOP4M3PA", CurveAges, 7) >> >>,
      << CurveYields1({ZERO_TRAJ, T19_25}), <<>> >>,
      << CurveYields1({ZERO_TRAJ, T19_25}),
         << YRow("S1", T19_25, "qP_TOP4M3PA", CurveAges, 30) >> >>,
      << SelectSeq(CurveYields1({ZERO_TRAJ, T19, T19_25}),
                   LAMBDA r : r.Product # "qP_TOP4M3PA") \o RemovedByAge, <<>> >>,
      << CurveYields1({ZERO_TRAJ, T19, T19_25}), RemovedByAge >> }

CurveClasses == {60, 65, 70, 75, 80}

\* The regen curves of one site-index class, ages 15 to 50: the no-treatment
\* softwood volume at age 15 is the class; a thinned variant with its
\* removed softwood
RegenAges == {15, 19, 25, 50}

Yields2Class(c) ==
    << WithVol(Y2Row(c, "LB", ZERO_TRAJ, "P_TOP4M3PA", RegenAges, 0),
               (15 :> c) @@ (19 :> c + 1) @@ (25 :> c + 2) @@ (50 :> c + 5)),
       WithVol(Y2Row(c, "LB", ZERO_TRAJ, "H_TOP4M3PA", RegenAges, 0),
               (15 :> 10) @@ (19 :> 10) @@ (25 :> 11) @@ (50 :> 12)),
       WithVol(Y2Row(c, "LB", T15, "P_TOP4M3PA", RegenAges, 0),
               (15 :> c - 10) @@ (19 :> c - 9) @@ (25 :> c - 8) @@ (50 :> c - 5)),
       WithVol(Y2Row(c, "LB", T15, "qP_TOP4M3PA", RegenAges, 0),
               (15 :> 20) @@ (19 :> 1) @@ (25 :> 2) @@ (50 :> 3)) >>

\* Yields2 with the classes of a set, in ascending order, and one class of
\* another regen species
RECURSIVE Yields2Classes(_)
Yields2Classes(cs) ==
    IF cs = {} THEN << Y2Row(75, "SL", ZERO_TRAJ, "P_TOP4M3PA", CurveAges \ {60}, 33) >>
    ELSE LET c == CHOOSE x \in cs : \A y \in cs : x <= y
         IN  Yields2Class(c) \o Yields2Classes(cs \ {c})

CurveStands ==
    [sk \in StandSet |->
        IF sk = "S1" THEN Classifiers("LB", ZERO_TRAJ) ELSE Classifiers("CSSL", ZERO_TRAJ)]

CurveAttrs(si) ==
    [sk \in StandSet |->
        [si_raw |-> IF sk = "S1" THEN Num(si) ELSE Num(70), IS_FOREST |-> TRUE]]

\* Every (Yields1, Yields3) pair with the regen curves of the stand's own
\* class and one neighbour, every set of regen classes with the first pair
CurveTables ==
    { <<ys, {65, 70}>> : ys \in CurveYields }
        \cup { << << CurveYields1({ZERO_TRAJ, T19, T19_25}), <<>> >>, cs >> :
                  cs \in SUBSET CurveClasses }

InitCurves ==
    \E si \in CurveSiteIndexes, t \in CurveTables :
        \E sched \in Schedules(CurveRows(si), MaxCurveRows) :
            StartWith(sched, DefaultAreas, CurveStands, CurveAttrs(si),
                      t[1][1], t[1][2], Yields2Classes(t[2]))

SpecCurves == InitCurves /\ [][Next]_vars

(***************************************************************************)
(* Deduplication: two stands of one classifier tuple, the second without   *)
(* curves of its own, with the curves of the first, and with other curves  *)
(***************************************************************************)
MaxDedupRows == 2

\* Yields1 of S1 and the no-treatment curves of S2 with softwood volume v
DedupYields1(v) ==
    Yields1Of(FALSE)
        \o (IF v = 0 THEN <<>>
            ELSE << YRow("S2", ZERO_TRAJ, "P_TOP4M3PA", CurveAges, v),
                    YRow("S2", ZERO_TRAJ, "H_TOP4M3PA", CurveAges \ {25}, 60) >>)

InitDedup ==
    \E sched \in Schedules(CurveRows(70), MaxDedupRows),
       v \in {0, 100, 7}, cs \in {{}, {70}} :
        StartWith(sched, DefaultAreas, DefaultStands, DefaultAttrs,
                  DedupYields1(v), <<>>, Yields2Classes(cs))

SpecDedup == InitDedup /\ [][Next]_vars

(***************************************************************************)
(* Classifier assignment: a layer of two stands and a few condition rows   *)
(***************************************************************************)
MaxCondRows == 2

\* Raw site indexes in tenths: missing, zero, halfway between two classes
\* (62.5, 72.5) and off the grid (66.4, 68.0)
SpatialSiteIndexes == {NaN, Num(0), Num(725), Num(664)}

ConditionSiteIndexes == {NaN, Num(0), Num(625), Num(680)}

\* Species, origin and the four treatment ages of a condition row
ConditionTreatments ==
    { [Species |-> NaN, Origin |-> NaN,
       Thin1 |-> NaN, Thin2 |-> NaN, Fert1 |-> NaN, Fert2 |-> NaN],
      [Species |-> Num("LB"), Origin |-> Num("PY"),
       Thin1 |-> Num(19), Thin2 |-> Num(25), Fert1 |-> Num(12), Fert2 |-> Num(0)],
      [Species |-> Num("SL"), Origin |-> NaN,
       Thin1 |-> Num(15), Thin2 |-> NaN, Fert1 |-> Num(0), Fert2 |-> Num(0)] }

ConditionRows ==
    { [stand_key |-> sk, Species |-> t.Species, Origin |-> t.Origin, SI |-> si,
       Thin1 |-> t.Thin1, Thin2 |-> t.Thin2, Fert1 |-> t.Fert1, Fert2 |-> t.Fert2] :
        sk \in {"S1", "S2"}, si \in ConditionSiteIndexes, t \in ConditionTreatments }

ConditionTables ==
    UNION { [1..n -> ConditionRows] : n \in 0..MaxCondRows }

SpatialLayer(si, is_forest) ==
    << [STAND_KEY |-> "S1", DOMSPECLAB |-> "COLB", ORIGIN_CODE |-> "NO",
        SITE_INDEX |-> si, IS_FOREST |-> is_forest],
       [STAND_KEY |-> "S2", DOMSPECLAB |-> "HW", ORIGIN_CODE |-> "NO",
        SITE_INDEX |-> Num(700), IS_FOREST |-> TRUE] >>

InitClassify ==
    /\ pc = "read"
    /\ \E si \in SpatialSiteIndexes, is_forest \in BOOLEAN :
           spatial = SpatialLayer(si, is_forest)
    /\ condition_initial \in ConditionTables
    /\ stands = <<>>
    /\ stand_attrs = <<>>
    /\ schedule = <<>>
    /\ cond_area = <<>>
    /\ yields1 = <<>>
    /\ yields3 = <<>>
    /\ yields2 = <<>>
    /\ curves = <<>>
    /\ events = <<>>
    /\ n_warnings = 0
    /\ rules = <<>>
    /\ rules_df = <<>>
    /\ NoArchive

NextClassify == AssignClassifiers

SpecClassify == InitClassify /\ [][NextClassify]_vars

DMIDs(db) == { db.tblDMValuesLookup[i].DMID : i \in DOMAIN db.tblDMValuesLookup }

DistTypeIDs(db) ==
    { db.tblDisturbanceTypeDefault[i].DistTypeID :
        i \in DOMAIN db.tblDisturbanceTypeDefault }

\* The appends of create_scaled_disturbance (the to_sql calls)
NUM_APPENDS == 4

\* connect, get_existing_disturbances, the two fetch_max, the counters
EnsureBegin(specs, dry_run) ==
    /\ ensure.pc = "idle"
    /\ ensure' = [IdleCall EXCEPT
           !.pc = "loop", !.disturbance_specs = specs, !.dry_run = dry_run,
           !.i = 1, !.existing = get_existing_disturbances(aidb),
           !.base_dmid = fetch_max(DMIDs(aidb)),
           !.base_dist_type_id = fetch_max(DistTypeIDs(aidb))]
    /\ UNCHANGED <<aidb, pipeline_vars, ingest_vars>>

\* One pass of "for spec in disturbance_specs"
EnsureLoop ==
    /\ ensure.pc = "loop"
    /\ ensure.i <= Len(ensure.disturbance_specs)
    /\ \E failing \in (IF Creates(ensure) THEN 0..NUM_APPENDS ELSE {0}) :
           LET pass == LoopPass(aidb, ensure, failing)
           IN  /\ aidb' = pass.aidb
               /\ ensure' = pass.ensure
    /\ UNCHANGED <<pipeline_vars, ingest_vars>>

\* The warnings are printed, the result is returned, the connection closed
EnsureReturn ==
    /\ ensure.pc = "loop"
    /\ ensure.i > Len(ensure.disturbance_specs)
    /\ ensure' = [ensure EXCEPT
           !.pc = "returned",
           !.printed = ensure.printed \o
               [k \in DOMAIN ensure.warnings_list |->
                   [line |-> "WARNING", name |-> ensure.warnings_list[k].name,
                    warning |-> ensure.warnings_list[k].warning]]]
    /\ UNCHANGED <<aidb, pipeline_vars, ingest_vars>>

(***************************************************************************)
(* The archive database and the calls: templates of three pools, with a    *)
(* pool moved whole to another pool, with a zero entry next to a stable    *)
(* pool and with a pool split between two other pools; specs that are new, *)
(* present (in another case, with blanks around the name, without an       *)
(* association), twice in the list, without parameters, of an unknown      *)
(* category, without a name                                                *)
(***************************************************************************)
MaxSpecs == 2

PctOfHundred(p) == Frac(p, 100)

TemplateShape(shape) ==
    CASE shape = "plain" ->
           << <<1, 1, 50>>, <<1, 2, 30>>, <<1, 3, 20>>, <<2, 2, 100>>, <<3, 3, 100>> >>
      [] shape = "whole_pool_moved" ->
           << <<1, 1, 50>>, <<1, 2, 50>>, <<2, 3, 100>>, <<3, 3, 100>> >>
      [] shape = "zero_entry" ->
           << <<1, 1, 50>>, <<1, 2, 50>>, <<2, 2, 100>>, <<2, 3, 0>>, <<3, 3, 100>> >>
      [] shape = "pool_split" ->
           << <<1, 1, 50>>, <<1, 2, 50>>, <<2, 1, 40>>, <<2, 3, 60>>, <<3, 3, 100>> >>

TemplateShapes == {"plain", "whole_pool_moved", "zero_entry", "pool_split"}

MatrixRows(dmid, entries) ==
    [i \in DOMAIN entries |->
        [DMID |-> dmid, DMRow |-> entries[i][1], DMColumn |-> entries[i][2],
         Proportion |-> PctOfHundred(entries[i][3])]]

EcoBoundaries ==
    << [EcoBoundaryID |-> 1, EcoBoundaryName |-> "Boreal"],
       [EcoBoundaryID |-> 2, EcoBoundaryName |-> "Taiga"] >>

DistType(id, name) ==
    [DistTypeID |-> id, DistTypeName |-> name, OnOffSwitch |-> TRUE,
     Description |-> name, IsStandReplacing |-> FALSE, IsMultiYear |-> FALSE,
     MultiYearCount |-> 0]

Associations(dist_type_id, dmid, name) ==
    [i \in DOMAIN EcoBoundaries |->
        [DefaultDisturbanceTypeID |-> dist_type_id, AnnualOrder |-> 1,
         DMID |-> dmid, DefaultEcoBoundaryID |-> EcoBoundaries[i].EcoBoundaryID,
         Name |-> name \o "-" \o EcoBoundaries[i].EcoBoundaryName,
         Description |-> name]]

DM(dmid, name) ==
    [DMID |-> dmid, Name |-> name, Description |-> name, DMStructureID |-> 2]

\* An archive with the clear-cut matrix, the two templates in one shape, and
\* a disturbance type ("Planting") that has no association
Archive(shape) ==
    [tblDMValuesLookup |->
         MatrixRows(20100, << <<1, 1, 3>>, <<1, 2, 97>>, <<2, 2, 100>> >>)
         \o MatrixRows(TEMPLATES.commercial.dmid, TemplateShape(shape))
         \o MatrixRows(TEMPLATES.precommercial.dmid, TemplateShape(shape)),
     tblDM |-> << DM(20100, "97% clear-cut"),
                  DM(TEMPLATES.commercial.dmid, "50% commercial thinning"),
                  DM(TEMPLATES.precommercial.dmid, "85% precommercial thinning") >>,
     tblDisturbanceTypeDefault |->
         << DistType(1, "97% clear-cut"), DistType(2, "50% commercial thinning"),
            DistType(3, "85% precommercial thinning"), DistType(4, "Planting") >>,
     tblDMAssociationDefault |->
         Associations(1, 20100, "97% clear-cut")
         \o Associations(2, TEMPLATES.commercial.dmid, "50% commercial thinning")
         \o Associations(3, TEMPLATES.precommercial.dmid, "85% precommercial thinning"),
     tblEcoBoundaryDefault |-> EcoBoundaries]

SpecChoices ==
    { [name |-> "30% ct", percent |-> PctOfHundred(30), category |-> "commercial"],
      [name |-> " 30% CT ", percent |-> PctOfHundred(30), category |-> "commercial"],
      [name |-> "30% commercial thinning", percent |-> PctOfHundred(30),
       category |-> "commercial"],
      [name |-> "90% precommercial thinning", percent |-> PctOfHundred(90),
       category |-> "precommercial"],
      [name |-> "97% Clear-Cut"],
      [name |-> "planting"],
      [name |-> "Fire"],
      [name |-> "20% salvage", percent |-> PctOfHundred(20), category |-> "salvage"],
      [name |-> "  "] }

SpecLists == UNION { [1..k -> SpecChoices] : k \in 1..MaxSpecs }

\* The pipeline is not running while the archive is worked on
NoPipeline ==
    /\ InputsRead
    /\ pc = "off"
    /\ schedule = <<>>
    /\ cond_area = <<>>
    /\ stands = <<>>
    /\ stand_attrs = <<>>
    /\ yields1 = <<>>
    /\ yields3 = <<>>
    /\ yields2 = <<>>
    /\ curves = <<>>
    /\ events = <<>>
    /\ n_warnings = 0
    /\ rules = <<>>
    /\ rules_df = <<>>

InitAidb ==
    /\ NoPipeline
    /\ \E shape \in TemplateShapes : aidb = Archive(shape)
    /\ ensure = IdleCall

NextAidb ==
    \/ \E specs \in SpecLists, dry_run \in BOOLEAN : EnsureBegin(specs, dry_run)
    \/ EnsureLoop
    \/ EnsureReturn

SpecAidb == InitAidb /\ [][NextAidb]_vars

(***************************************************************************)
(* Claims                                                                  *)
(***************************************************************************)
\* The events of one stand, in table order
StandEvents(sk) == SelectSeq(events, LAMBDA e : e.stand_key = sk)

TypesAndYears(evs) == [i \in DOMAIN evs |-> <<evs[i].disturbance_type, evs[i].year>>]

\* C1: after extract_disturbance_events the table is sorted by year within
\* each stand, and a 1st_Thin or 2nd_Thin event has rotation 2 exactly when a
\* Clearcut event of its stand stands before it in that order, rotation 1
\* otherwise; [Clearcut@2030, 1st_Thin@2045] tags the thin 2 and
\* [1st_Thin@2020, Clearcut@2035] tags the thin 1.
C1_RotationTag ==
    pc = "extracted" =>
        /\ \A i, j \in DOMAIN events :
               (i < j /\ events[i].stand_key = events[j].stand_key)
                   => events[i].year <= events[j].year
        /\ \A i \in DOMAIN events :
               IsThin(events[i]) =>
                   /\ events[i].rotation \in {1, 2}
                   /\ events[i].rotation = 2 <=>
                          \E j \in 1..(i - 1) :
                              /\ events[j].stand_key = events[i].stand_key
                              /\ events[j].disturbance_type = "Clearcut"
        /\ \A sk \in StandSet :
               /\ TypesAndYears(StandEvents(sk))
                      = << <<"Clearcut", 2030>>, <<"1st_Thin", 2045>> >>
                   => StandEvents(sk)[2].rotation = 2
               /\ TypesAndYears(StandEvents(sk))
                      = << <<"1st_Thin", 2020>>, <<"Clearcut", 2035>> >>
                   => StandEvents(sk)[1].rotation = 1

\* Both examples of C1 in one table, given in the file with the later rows first
C1_Witness ==
    /\ pc = "extracted"
    /\ schedule[1].YEAR = 2045
    /\ TypesAndYears(StandEvents("S1"))
           = << <<"Clearcut", 2030>>, <<"1st_Thin", 2045>> >>
    /\ StandEvents("S1")[2].rotation = 2
    /\ TypesAndYears(StandEvents("S2"))
           = << <<"1st_Thin", 2020>>, <<"Clearcut", 2035>> >>
    /\ StandEvents("S2")[1].rotation = 1

\* The clearcut events of a stand (by the schedule's action, which the
\* relabelling leaves alone), in table order, which is year order
StandClearcuts(sk) ==
    SelectSeq(events, LAMBDA e : e.stand_key = sk /\ e.action = "aHCC")

\* Events a..b of a stand's clearcuts lie in one cluster: no gap above 10
OneCluster(cc, a, b) ==
    \A k \in a..(b - 1) : cc[k + 1].year - cc[k].year <= 10

ClusterOf(cc, a) ==
    { b \in DOMAIN cc : IF a <= b THEN OneCluster(cc, a, b) ELSE OneCluster(cc, b, a) }

IsFractional(e) == EndsWith(e.disturbance_type, "% clearcut")

\* C8: after classify_partial_clearcuts, in a stand with more than one
\* clearcut and a positive stand area, a clearcut event is a fractional
\* clearcut exactly when its cluster (consecutive events, by year, with gaps
\* of at most 10) has more than one event, one of them below 95% of the stand
\* area, and the event is not the last of the cluster; every other clearcut
\* event is still "Clearcut".
C8_PartialClusters ==
    pc = "classified" =>
        \A sk \in StandSet :
            LET cc == StandClearcuts(sk) IN
            (Len(cc) > 1 /\ sk \in DOMAIN cond_area /\ cond_area[sk] > 0) =>
                \A a \in DOMAIN cc :
                    LET cl == ClusterOf(cc, a)
                        relabelled ==
                            /\ Cardinality(cl) > 1
                            /\ \E b \in cl : 100 * cc[b].area < 95 * cond_area[sk]
                            /\ \E b \in cl : b > a
                    IN  /\ relabelled => IsFractional(cc[a])
                        /\ ~relabelled => cc[a].disturbance_type = "Clearcut"

\* Three clearcuts of S1 with a gap above 10 and then one of at most 10: the
\* first is a cluster of its own, the second is relabelled, the third closes
\* the cluster as a Clearcut
C8_Witness ==
    /\ pc = "classified"
    /\ "S1" \in DOMAIN cond_area /\ cond_area["S1"] = 100
    /\ Len(StandClearcuts("S1")) = 3
    /\ StandClearcuts("S1")[2].year - StandClearcuts("S1")[1].year > 10
    /\ StandClearcuts("S1")[3].year - StandClearcuts("S1")[2].year <= 10
    /\ StandClearcuts("S1")[2].area < 95
    /\ StandClearcuts("S1")[1].disturbance_type = "Clearcut"
    /\ IsFractional(StandClearcuts("S1")[2])
    /\ StandClearcuts("S1")[3].disturbance_type = "Clearcut"

\* C9: clearcuts of one stand at [2030, 2031, 2045] with areas [40, 60, 100]
\* and a stand area of 100: the 2030 event becomes exactly "40.00% clearcut",
\* the 2031 and 2045 events stay "Clearcut".
C9_Example ==
    \A sk \in StandSet :
        ( /\ pc = "classified"
          /\ sk \in DOMAIN cond_area /\ cond_area[sk] = 100
          /\ [i \in DOMAIN StandClearcuts(sk) |->
                 <<StandClearcuts(sk)[i].year, StandClearcuts(sk)[i].area>>]
               = << <<2030, 40>>, <<2031, 60>>, <<2045, 100>> >> )
        => [i \in DOMAIN StandClearcuts(sk) |-> StandClearcuts(sk)[i].disturbance_type]
               = <<"40.00% clearcut", "Clearcut", "Clearcut">>

\* The volume the tables hold for a thinning event, trajectory and product at
\* the event's age, read off the tables directly: by rotation 2 from Yields2
\* under the rounded site index and regen species, otherwise from Yields3 and,
\* when Yields3 has no row, from Yields1; 0 when there is no row, no value in
\* the cell, or the age is outside the table's ages.
TableVolume(tbl, keyed, traj, product, age, max_age) ==
    LET hit == { k \in DOMAIN tbl :
                   /\ keyed[k]
                   /\ tbl[k].mgmt_trajectory = traj
                   /\ tbl[k].Product = product }
    IN  IF age < 1 \/ age > max_age THEN {0}
        ELSE { IF age \in DOMAIN tbl[k].vol THEN tbl[k].vol[age] ELSE 0 : k \in hit }

SoleOrZero(set) == IF set = {} THEN 0 ELSE CHOOSE v \in set : TRUE

VolumeAt(e, traj, product) ==
    IF e.rotation = 2
    THEN SoleOrZero(TableVolume(yields2,
             [k \in DOMAIN yields2 |->
                 /\ yields2[k].si_value = _round_si(e.si)
                 /\ yields2[k].species_code = _species_to_regen_code(e.species)],
             traj, product, e.age, 50))
    ELSE LET v3 == TableVolume(yields3,
                       [k \in DOMAIN yields3 |-> yields3[k].stand_key = e.stand_key],
                       traj, product, e.age, 78)
             v1 == TableVolume(yields1,
                       [k \in DOMAIN yields1 |-> yields1[k].stand_key = e.stand_key],
                       traj, product, e.age, 78)
         IN  IF v3 # {} THEN SoleOrZero(v3) ELSE SoleOrZero(v1)

\* The pre- and post-treatment trajectories of a thinning event
PreTreatment(e) ==
    IF e.disturbance_type = "1st_Thin"
    THEN Trajectory(0, 0, e.fert1, e.fert2)
    ELSE Trajectory(e.thin1, 0, e.fert1, e.fert2)

PostTreatment(e) ==
    IF e.disturbance_type = "1st_Thin"
    THEN Trajectory(e.age, 0, e.fert1, e.fert2)
    ELSE Trajectory(e.thin1, e.age, e.fert1, e.fert2)

PreTotal(e) ==
    VolumeAt(e, PreTreatment(e), "P_TOP4M3PA")
        + VolumeAt(e, PreTreatment(e), "H_TOP4M3PA")

RemovedSoftwood(e) == VolumeAt(e, PostTreatment(e), "qP_TOP4M3PA")
RemovedHardwood(e) == VolumeAt(e, PostTreatment(e), "qH_TOP4M3PA")

\* C2: after calc_thinning_pct every thinning event with a positive
\* pre-treatment volume has removal percentage
\* 100 x (removed softwood + removed hardwood) / (pre-treatment softwood +
\* hardwood), two decimals, both removed volumes read from the post-treatment
\* curve; pre-treatment 120 and removed 40 give 33.33.
C2_RemovalPct ==
    pc = "pct" =>
        \A i \in DOMAIN events :
            (IsThin(events[i]) /\ PreTotal(events[i]) > 0) =>
                events[i].pct_volume_removed =
                    { RoundPct(RemovedSoftwood(events[i]) + RemovedHardwood(events[i]),
                               PreTotal(events[i])) }

\* C3: after calc_thinning_pct, with or without thinning events in the
\* table, every Clearcut event has 97, every fractional clearcut the
\* percentage its type name carries, every Site_Prep event 0.
C3_FixedPct ==
    pc = "pct" =>
        \A i \in DOMAIN events :
            /\ events[i].disturbance_type = "Clearcut"
                   => events[i].pct_volume_removed = {9700}
            /\ IsFractional(events[i])
                   => events[i].pct_volume_removed =
                          { ParseFloat(StripSuffix(events[i].disturbance_type,
                                                   "% clearcut")) }
            /\ events[i].disturbance_type = "Site_Prep"
                   => events[i].pct_volume_removed = {0}

\* C10: after calc_thinning_pct every thinning event whose pre-treatment
\* softwood + hardwood volume is zero (curve missing and age out of range
\* included) has removal percentage 0, each such event is counted as a
\* diagnostic, and every other thinning event of the batch has its computed
\* percentage.
C10_ZeroDenominator ==
    pc = "pct" =>
        /\ \A i \in DOMAIN events :
               (IsThin(events[i]) /\ PreTotal(events[i]) = 0)
                   => events[i].pct_volume_removed = {0}
        /\ n_warnings = Cardinality({ i \in DOMAIN events :
                            IsThin(events[i]) /\ PreTotal(events[i]) = 0 })
        /\ \A i \in DOMAIN events :
               (IsThin(events[i]) /\ PreTotal(events[i]) > 0)
                   => events[i].pct_volume_removed =
                          { RoundPct(RemovedSoftwood(events[i]), PreTotal(events[i])) }

\* A batch with a thin of a stand without curves, a rotation-2 thin at an age
\* beyond the regen curves, and a thin that has its percentage
C10_Witness ==
    /\ pc = "pct"
    /\ n_warnings >= 1
    /\ \E i, j \in DOMAIN events :
           /\ IsThin(events[i]) /\ PreTotal(events[i]) = 0
           /\ events[i].pct_volume_removed = {0}
           /\ (events[i].stand_key = "S2"
               \/ (events[i].rotation = 2 /\ events[i].age > 50))
           /\ IsThin(events[j]) /\ PreTotal(events[j]) = 120
           /\ events[j].pct_volume_removed = {3333}

\* The events that made a rule, in table order: rules[k] is the rule of
\* RuleEvents[k]
RuleEvents == SelectSeq(events, LAMBDA e : MakesRule(e, stands))

\* C4: the rule of a 1st_Thin or 2nd_Thin event changes only the trajectory,
\* the target trajectory records the age of the thin just performed (thin1 =
\* the event's age for a 1st thin; thin2 = the event's age with the earlier
\* thin1 kept for a 2nd thin), and the age is not reset.
C4_ThinTarget ==
    pc = "rules" =>
        \A k \in DOMAIN rules :
            LET e == RuleEvents[k]
                ages == _parse_thin_ages(rules[k].tgt.mgmt_trajectory)
            IN  IsThin(e) =>
                    /\ [rules[k].tgt EXCEPT !.mgmt_trajectory =
                            rules[k].src.mgmt_trajectory] = rules[k].src
                    /\ e.disturbance_type = "1st_Thin" => ages[1] = e.age
                    /\ e.disturbance_type = "2nd_Thin" =>
                           ages = <<e.thin1, e.age>>
                    /\ rules[k].reset_age = -1

\* C5: the source tuple of the rule of an event that follows a Clearcut of
\* its stand has growth_period = post_regen and is the target tuple of the
\* stand's preceding rule.
C5_SourceAtEventTime ==
    pc = "rules" =>
        \A k \in DOMAIN rules :
            \A j \in 1..(k - 1) :
                ( /\ RuleEvents[j].stand_key = RuleEvents[k].stand_key
                  /\ RuleEvents[j].disturbance_type = "Clearcut"
                  /\ \A m \in (j + 1)..(k - 1) :
                         RuleEvents[m].stand_key # RuleEvents[k].stand_key )
                => /\ rules[k].src.growth_period = "post_regen"
                   /\ rules[k].src = rules[j].tgt

\* C6: two events of the same disturbance type whose stands have the same
\* classifier tuple get the same target tuple and age reset, so that the
\* deduplication drops no rule that differs from the one kept.
C6_Determinism ==
    pc = "rules" =>
        \A j, k \in DOMAIN rules :
            ( /\ rules[j].disturbance_type = rules[k].disturbance_type
              /\ rules[j].src = rules[k].src )
            => /\ rules[j].tgt = rules[k].tgt
               /\ rules[j].reset_age = rules[k].reset_age

\* The replant mapping, species by species
Replanted(species) ==
    CASE species \in {"COLB", "CSLB"} -> "LB"
      [] species \in {"COLL", "CSLL"} -> "LL"
      [] species \in {"COSL", "CSSL"} -> "SL"
      [] species \in {"PH", "HH", "SH"} -> "LB"
      [] OTHER -> species

ClearcutTarget(src) ==
    [species |-> Replanted(src.species), origin |-> src.origin,
     si_class |-> src.si_class, growth_period |-> "post_regen",
     mgmt_trajectory |-> "T1-0-T2-0-F1-0-F2-0"]

\* C7: every Clearcut event of a stand the classifier table holds has a rule
\* in the returned table, from the stand's tuple to the tuple with
\* growth_period = post_regen, the replanted species, the all-zero trajectory,
\* origin and si_class unchanged, with the age reset to zero; and every
\* Clearcut rule has that shape.
C7_ClearcutRule ==
    pc = "rules" =>
        /\ \A i \in DOMAIN events :
               ( /\ events[i].disturbance_type = "Clearcut"
                 /\ events[i].stand_key \in DOMAIN stands )
               => \E k \in DOMAIN rules_df :
                      rules_df[k] =
                          [disturbance_type |-> "Clearcut",
                           src |-> stands[events[i].stand_key],
                           tgt |-> ClearcutTarget(stands[events[i].stand_key]),
                           reset_age |-> 0]
        /\ \A k \in DOMAIN rules_df :
               rules_df[k].disturbance_type = "Clearcut"
                   => /\ rules_df[k].tgt = ClearcutTarget(rules_df[k].src)
                      /\ rules_df[k].reset_age = 0

\* A clearcut of a cutover stand that was thinned before the schedule starts:
\* the species collapses and the trajectory goes back to all-zero
C7_Witness ==
    /\ pc = "rules"
    /\ stands["S1"].species = "COLB"
    /\ stands["S1"].mgmt_trajectory = "T1-19-T2-0-F1-0-F2-0"
    /\ \E i \in DOMAIN events :
           events[i].stand_key = "S1" /\ events[i].disturbance_type = "Clearcut"
    /\ \E k \in DOMAIN rules_df :
           /\ rules_df[k].disturbance_type = "Clearcut"
           /\ rules_df[k].src = stands["S1"]
           /\ rules_df[k].tgt.species = "LB"
           /\ rules_df[k].tgt.mgmt_trajectory = "T1-0-T2-0-F1-0-F2-0"
           /\ rules_df[k].tgt.growth_period = "post_regen"
           /\ rules_df[k].reset_age = 0

(***************************************************************************)
(* Claims about the archive database                                       *)
(***************************************************************************)
\* The matrices the call has added: the DMIDs above the maximum it read
NewDMIDs ==
    IF ensure.pc = "idle" THEN {}
    ELSE { d \in DMIDs(aidb) : d > ensure.base_dmid }

MatrixOf(d) == SelectSeq(aidb.tblDMValuesLookup, LAMBDA r : r.DMID = d)

TriplesOf(d) == { Triple(MatrixOf(d)[i]) : i \in DOMAIN MatrixOf(d) }

\* The spec a new matrix was made for: the one of the name in its tblDM row
NameOf(d) ==
    LET rows == SelectSeq(aidb.tblDM, LAMBDA r : r.DMID = d) IN rows[1].Name

SpecOf(d) ==
    CHOOSE spec \in { ensure.disturbance_specs[i] : i \in DOMAIN ensure.disturbance_specs } :
        Strip(spec.name) = NameOf(d)

TemplateOf(d) ==
    SelectSeq(aidb.tblDMValuesLookup,
              LAMBDA r : r.DMID = TEMPLATES[SpecOf(d).category].dmid)

Ratio(d) == FDiv(SpecOf(d).percent, TEMPLATES[SpecOf(d).category].base_pct)

\* The outgoing proportions of one source pool of a matrix, added up
Outgoing(d, pool) ==
    LET sub == SelectSeq(MatrixOf(d), LAMBDA r : r.DMRow = pool)
    IN  FSum([i \in DOMAIN sub |-> sub[i].Proportion])

SumsToOne(d) ==
    \A pool \in { MatrixOf(d)[i].DMRow : i \in DOMAIN MatrixOf(d) } :
        ~ FGreater(FAbs(FSub(Outgoing(d, pool), ONE)), ROW_SUM_TOLERANCE)

\* A template in which a source pool has an entry of proportion 1 and a
\* non-diagonal entry of another proportion as well
MixedPool(tmpl) ==
    \E i, j \in DOMAIN tmpl :
        /\ tmpl[i].DMRow = tmpl[j].DMRow
        /\ tmpl[i].Proportion = ONE
        /\ tmpl[j].Proportion # ONE
        /\ tmpl[j].DMRow # tmpl[j].DMColumn

RowSumReported(d) ==
    \E k \in DOMAIN ensure.printed :
        /\ ensure.printed[k].line = "WARNING: Matrix row sums don't equal 1"
        /\ ensure.printed[k].dmid = d

Count(rows, x) == Cardinality({ i \in DOMAIN rows : Triple(rows[i]) = x })

Scaled(t, ratio) ==
    [DMRow |-> t.DMRow, DMColumn |-> t.DMColumn,
     Proportion |-> FMul(ratio, t.Proportion)]

IsScaledEntry(t) == t.DMRow # t.DMColumn /\ t.Proportion # ONE

\* 1 minus the scaled outgoing entries of a pool of the template
Retained(tmpl, pool, ratio) ==
    LET sub == SelectSeq(tmpl, LAMBDA t : IsScaledEntry(t) /\ t.DMRow = pool)
    IN  FSub(ONE, FSum([i \in DOMAIN sub |-> FMul(ratio, sub[i].Proportion)]))

\* How often the triple x has to be in the matrix built from tmpl
Expected(tmpl, ratio, x) ==
    Cardinality({ i \in DOMAIN tmpl :
                    IsScaledEntry(tmpl[i]) /\ Scaled(tmpl[i], ratio) = x })
    + Cardinality({ i \in DOMAIN tmpl :
                    tmpl[i].Proportion = ONE /\ Triple(tmpl[i]) = x })
    + (IF /\ x.DMRow = x.DMColumn
          /\ \E i \in DOMAIN tmpl : IsScaledEntry(tmpl[i]) /\ tmpl[i].DMRow = x.DMRow
          /\ x.Proportion = Retained(tmpl, x.DMRow, ratio)
       THEN 1 ELSE 0)

\* C12: a built matrix holds every non-diagonal template entry of proportion
\* other than 1 multiplied by target / baseline, for every source pool with
\* such entries one diagonal entry of 1 minus the sum of its scaled entries
\* (whatever the template's diagonal was), every template entry of
\* proportion 1 as it is, and nothing else.
C12_ScaledMatrix ==
    \A d \in NewDMIDs :
        LET tmpl == TemplateOf(d)
            ratio == Ratio(d)
            pools == { tmpl[i].DMRow : i \in DOMAIN tmpl }
            candidates ==
                TriplesOf(d)
                \cup { Scaled(tmpl[i], ratio) : i \in DOMAIN tmpl }
                \cup { Triple(tmpl[i]) : i \in DOMAIN tmpl }
                \cup { [DMRow |-> p, DMColumn |-> p,
                        Proportion |-> Retained(tmpl, p, ratio)] : p \in pools }
        IN  \A x \in candidates : Count(MatrixOf(d), x) = Expected(tmpl, ratio, x)

\* A matrix built from the template at 30% of a 50% baseline: the entries
\* 0.3 and 0.2 of pool 1 became 0.18 and 0.12, its diagonal 0.5 became 0.7,
\* the stable pools were copied
C12_Witness ==
    \E d \in NewDMIDs :
        /\ [DMRow |-> 1, DMColumn |-> 2, Proportion |-> Frac(18, 100)] \in TriplesOf(d)
        /\ [DMRow |-> 1, DMColumn |-> 3, Proportion |-> Frac(12, 100)] \in TriplesOf(d)
        /\ [DMRow |-> 1, DMColumn |-> 1, Proportion |-> Frac(70, 100)] \in TriplesOf(d)
        /\ [DMRow |-> 2, DMColumn |-> 2, Proportion |-> ONE] \in TriplesOf(d)
        /\ Cardinality(TriplesOf(d)) = 5

\* The identifiers the call has handed to create_scaled_disturbance so far
\* (the k-th creation gets base + k), and the tables that hold rows of them
Handed == IF ensure.pc = "idle" \/ ensure.dry_run THEN {} ELSE 1..ensure.idx

InValues(k) ==
    \E i \in DOMAIN aidb.tblDMValuesLookup :
        aidb.tblDMValuesLookup[i].DMID = ensure.base_dmid + k

InDM(k) ==
    \E i \in DOMAIN aidb.tblDM : aidb.tblDM[i].DMID = ensure.base_dmid + k

InDistTypes(k) ==
    \E i \in DOMAIN aidb.tblDisturbanceTypeDefault :
        aidb.tblDisturbanceTypeDefault[i].DistTypeID = ensure.base_dist_type_id + k

InAssociations(k) ==
    \E i \in DOMAIN aidb.tblDMAssociationDefault :
        \/ aidb.tblDMAssociationDefault[i].DMID = ensure.base_dmid + k
        \/ aidb.tblDMAssociationDefault[i].DefaultDisturbanceTypeID
               = ensure.base_dist_type_id + k

InAll(k) == InValues(k) /\ InDM(k) /\ InDistTypes(k) /\ InAssociations(k)
InNone(k) == ~InValues(k) /\ ~InDM(k) /\ ~InDistTypes(k) /\ ~InAssociations(k)

\* The creation the call failed in: the last one handed out
Failed(k) == ensure.pc = "raised" /\ k = ensure.idx

\* C13: at every moment the rows of one new DMID / DistTypeID are in all four
\* tables or in none of them; after a failed append none of the four tables
\* holds rows of the failed definition, and the definitions created earlier
\* in the call are in all four.
C13_AtomicCreation ==
    \A k \in Handed :
        /\ InAll(k) \/ InNone(k)
        /\ Failed(k) => InNone(k)
        /\ ~Failed(k) => InAll(k)

\* The call has failed in its second creation, in an append after the first
C13_Witness ==
    /\ ensure.pc = "raised"
    /\ ensure.idx = 2
    /\ InAll(1)
    /\ InNone(2)

\* The item of the pass the loop is about to make
AtItem == ensure.pc = "loop" /\ ensure.i <= Len(ensure.disturbance_specs)
Item == ensure.disturbance_specs[ensure.i]
ItemName == Strip(IF "name" \in DOMAIN Item THEN Item.name ELSE "")

\* C14: a pass of the loop changes the archive only for an item whose
\* trimmed, lower-cased name is not in tblDisturbanceTypeDefault and only
\* without dry_run; for a name that is in the table the result entry has the
\* stored DistTypeID and DMID and created = False; with dry_run the result
\* entry of an item to create has the maximum plus the running counter and
\* the four tables stay as they are.
C14_WritesOnlyWhenAbsent ==
    [][ (AtItem /\ ItemName # "") =>
          /\ aidb' # aidb =>
                 (Lower(ItemName) \notin ExistingKeys(aidb) /\ ~ensure.dry_run)
          /\ Lower(ItemName) \in ExistingKeys(aidb) =>
                 /\ aidb' = aidb
                 /\ ensure'.result[ItemName].created = FALSE
                 /\ \E i \in DOMAIN aidb.tblDisturbanceTypeDefault :
                        /\ Lower(Strip(aidb.tblDisturbanceTypeDefault[i].DistTypeName))
                               = Lower(ItemName)
                        /\ ensure'.result[ItemName].dist_type_id
                               = Num(aidb.tblDisturbanceTypeDefault[i].DistTypeID)
          /\ ensure.dry_run =>
                 /\ aidb' = aidb
                 /\ ensure'.idx > ensure.idx =>
                        /\ ensure'.result[ItemName].dmid
                               = Num(fetch_max(DMIDs(aidb)) + ensure'.idx)
                        /\ ensure'.result[ItemName].dist_type_id
                               = Num(fetch_max(DistTypeIDs(aidb)) + ensure'.idx)
      ]_vars

\* Two new matrices made for the same category and target
SameRun(d1, d2) ==
    /\ SpecOf(d1).category = SpecOf(d2).category
    /\ SpecOf(d1).percent = SpecOf(d2).percent

\* The rows of the two templates as the archive had them before the call
TemplatesUntouched ==
    \E shape \in TemplateShapes :
        \A c \in DOMAIN TEMPLATES :
            SelectSeq(aidb.tblDMValuesLookup, LAMBDA r : r.DMID = TEMPLATES[c].dmid)
                = MatrixRows(TEMPLATES[c].dmid, TemplateShape(shape))

\* C15: two runs of the scaling with the same template and the same target
\* give the same set of (source pool, destination pool, proportion)
\* triples, and no run changes the rows of the template.
C15_ScalerIdempotent ==
    /\ TemplatesUntouched
    /\ \A d1, d2 \in NewDMIDs : SameRun(d1, d2) => TriplesOf(d1) = TriplesOf(d2)

\* Two matrices have been built from the commercial template at 30%
C15_Witness ==
    \E d1, d2 \in NewDMIDs :
        /\ d1 # d2
        /\ SameRun(d1, d2)
        /\ Lower(NameOf(d1)) # Lower(NameOf(d2))
        /\ TriplesOf(d1) # {}
        /\ TriplesOf(d1) # { Triple(TemplateOf(d1)[i]) : i \in DOMAIN TemplateOf(d1) }

\* An item that cannot be created: not in the archive when the call read
\* it, and without percent or category or with a category that has no
\* template
Uncreatable ==
    /\ AtItem
    /\ ItemName # ""
    /\ Lower(ItemName) \notin DOMAIN ensure.existing
    /\ \/ Get(Item, "percent") = None
       \/ Get(Item, "category") = None
       \/ Val(Get(Item, "category")) \notin {"precommercial", "commercial"}

\* C16: the pass for an item that cannot be created appends one warning,
\* stores a result entry with created = False and no identifiers, takes no
\* new DMID / DistTypeID, writes nothing, and goes on to the next item.
C16_SkippedItem ==
    [][ Uncreatable =>
          /\ Len(ensure'.warnings_list) = Len(ensure.warnings_list) + 1
          /\ ensure'.warnings_list[Len(ensure'.warnings_list)].name = ItemName
          /\ ensure'.result[ItemName].created = FALSE
          /\ ensure'.result[ItemName].dmid = None
          /\ ensure'.result[ItemName].dist_type_id = None
          /\ ensure'.idx = ensure.idx
          /\ aidb' = aidb
          /\ ensure'.pc = "loop"
          /\ ensure'.i = ensure.i + 1
      ]_vars

\* The call has returned; an item of an unknown category was skipped with a
\* warning and the item after it was created with the first new identifiers
C16_Witness ==
    /\ ensure.pc = "returned"
    /\ Len(ensure.disturbance_specs) = 2
    /\ Get(ensure.disturbance_specs[1], "category") = Num("salvage")
    /\ Strip(ensure.disturbance_specs[2].name) = "30% ct"
    /\ ensure.result["20% salvage"].created = FALSE
    /\ ensure.result["30% ct"].created = TRUE
    /\ ensure.result["30% ct"].dmid = Num(ensure.base_dmid + 1)
    /\ InAll(1)
    /\ \E k \in DOMAIN ensure.printed : ensure.printed[k].line = "WARNING"

(***************************************************************************)
(* Claims about the yield curve resolution                                 *)
(***************************************************************************)
\* The curves a yields table holds under (stand key, trajectory key) for a
\* product, read off the table directly
Entries(tbl, sk, traj, product) ==
    { tbl[k].vol : k \in { j \in DOMAIN tbl :
                             /\ tbl[j].stand_key = sk
                             /\ tbl[j].mgmt_trajectory = traj
                             /\ tbl[j].Product = product } }

\* Yields3's entry when it has one for the key, otherwise Yields1's
Resolved(sk, traj, product) ==
    IF Entries(yields3, sk, traj, product) # {}
    THEN Entries(yields3, sk, traj, product)
    ELSE Entries(yields1, sk, traj, product)

\* A table curve in the units and age columns of the curve table
InCurveUnits(vol, max_age) ==
    [a \in _age_cols(max_age) |->
        (IF a \in DOMAIN vol THEN vol[a] ELSE 0) * M3_ACRE_TO_M3_HA]

CurvesBuilt == pc # "ingested"
PctDone == pc \in {"pct", "rules"}

CurveRowsOf(growth_period) ==
    { curves[i].row : i \in { j \in DOMAIN curves :
                                curves[j].row.growth_period = growth_period } }

ProductOf(row) ==
    IF row.leading_species = "Softwood" THEN "P_TOP4M3PA" ELSE "H_TOP4M3PA"

\* The amount build_current_yield_curves adds to a softwood curve
Adjustment(row) ==
    IF row.leading_species = "Softwood"
    THEN _compute_qp_adjustment(row.mgmt_trajectory,
                                CurrentQp(yields1, yields3, row.stand_key),
                                MAX_AGE_YIELDS1)
    ELSE 0

\* A current-rotation row of the curve table carries the entry e
Carries(row, e) ==
    row.vol = [a \in _age_cols(MAX_AGE_YIELDS1) |->
                  InCurveUnits(e, MAX_AGE_YIELDS1)[a] + Adjustment(row)]

\* C17: the current-rotation curve of every (stand key, trajectory key) and
\* product is Yields3's entry when Yields3 has one for that key, otherwise
\* Yields1's, wherever the rows sit in the two tables: every current row of
\* the curve table carries that entry (plus the softwood adjustment), every
\* key of a forest stand has its row, and every rotation-1 thinning event
\* has the percentage of the volumes resolved that way.
C17_OverrideByKey ==
    /\ CurvesBuilt =>
        /\ \A row \in CurveRowsOf(GROWTH_PERIOD_CURRENT) :
               LET es == Resolved(row.stand_key, row.mgmt_trajectory, ProductOf(row))
               IN  es # {} => \E e \in es : Carries(row, e)
        /\ \A sk \in StandSet, product \in {"P_TOP4M3PA", "H_TOP4M3PA"} :
           \A traj \in { r.mgmt_trajectory : r \in
                           { yields1[i] : i \in DOMAIN yields1 }
                               \cup { yields3[i] : i \in DOMAIN yields3 } } :
               Resolved(sk, traj, product) # {} =>
                   \E row \in CurveRowsOf(GROWTH_PERIOD_CURRENT) :
                       /\ row.stand_key = sk
                       /\ row.mgmt_trajectory = traj
                       /\ ProductOf(row) = product
    /\ PctDone =>
        \A i \in DOMAIN events :
            (IsThin(events[i]) /\ events[i].rotation # 2) =>
                events[i].pct_volume_removed =
                    { IF PreTotal(events[i]) > 0
                      THEN RoundPct(RemovedSoftwood(events[i]), PreTotal(events[i]))
                      ELSE 0 }

\* Yields3 holds the once-thinned softwood curve of S1 in its first row,
\* Yields1 the no-treatment curve: the curve table has Yields3's 130 (plus
\* the removed 40) for the once-thinned trajectory and Yields1's 100 for the
\* no-treatment one, and the second thin at age 25 removed 30 of 130
C17_Witness ==
    /\ PctDone
    /\ Len(yields3) = 1
    /\ yields3[1].mgmt_trajectory = T19 /\ yields1[1].mgmt_trajectory = ZERO_TRAJ
    /\ \E r1, r2 \in CurveRowsOf(GROWTH_PERIOD_CURRENT) :
           /\ r1.stand_key = "S1" /\ r1.mgmt_trajectory = T19
           /\ r1.leading_species = "Softwood"
           /\ r1.vol[25] = (130 + 40) * M3_ACRE_TO_M3_HA
           /\ r2.stand_key = "S1" /\ r2.mgmt_trajectory = ZERO_TRAJ
           /\ r2.leading_species = "Softwood"
           /\ r2.vol[25] = 100 * M3_ACRE_TO_M3_HA
    /\ \E i \in DOMAIN events :
           /\ events[i].disturbance_type = "2nd_Thin"
           /\ events[i].rotation # 2
           /\ events[i].pct_volume_removed = {2308}

\* Neither Yields1 nor Yields3 has a row of (stand key, trajectory key)
NoEntry(sk, traj) ==
    \A tbl \in {yields1, yields3} : \A k \in DOMAIN tbl :
        ~(tbl[k].stand_key = sk /\ tbl[k].mgmt_trajectory = traj)

\* The volume of a curve at the age of an event
AtAge(e, vol) ==
    IF e.age < 1 \/ e.age > MAX_AGE_YIELDS1 THEN 0
    ELSE IF e.age \in DOMAIN vol THEN vol[e.age] ELSE 0

\* The volume of the stand's no-treatment curve at the age of an event
NoTreatmentVolume(e, product) ==
    SoleOrZero({ AtAge(e, vol) : vol \in Resolved(e.stand_key, ZERO_TRAJ, product) })

NoTreatmentTotal(e) ==
    NoTreatmentVolume(e, "P_TOP4M3PA") + NoTreatmentVolume(e, "H_TOP4M3PA")

\* C18: when neither Yields1 nor Yields3 has an entry for (stand key,
\* trajectory key), the current-rotation resolution yields the stand's
\* no-treatment curve, not zeros and not a missing result: a rotation-1
\* thinning event whose pre-treatment trajectory is in neither table has the
\* percentage of its removed volume in the no-treatment volume at its age.
C18_NoTreatmentFallback ==
    PctDone =>
        \A i \in DOMAIN events :
            ( /\ IsThin(events[i]) /\ events[i].rotation # 2
              /\ NoEntry(events[i].stand_key, PreTreatment(events[i]))
              /\ NoTreatmentTotal(events[i]) > 0 ) =>
                events[i].pct_volume_removed =
                    { RoundPct(RemovedSoftwood(events[i]), NoTreatmentTotal(events[i])) }

\* The volume Yields2 holds under (site-index class, regen species of the
\* event's stand) for a trajectory and product at the event's age
RegenVolumeAt(e, cls, traj, product) ==
    SoleOrZero(TableVolume(yields2,
        [k \in DOMAIN yields2 |->
            /\ yields2[k].si_value = cls
            /\ yields2[k].species_code = _SPECIES_TO_REGEN(stands[e.stand_key].species)],
        traj, product, e.age, MAX_AGE_YIELDS2))

RegenPreTotal(e, cls) ==
    RegenVolumeAt(e, cls, PreTreatment(e), "P_TOP4M3PA")
        + RegenVolumeAt(e, cls, PreTreatment(e), "H_TOP4M3PA")

\* The site-index class build_regen_yield_curves takes the regen curves of
\* the event's stand from
ResolverClass(e) ==
    RegenClass(yields2, stand_attrs[e.stand_key].si_raw, stands[e.stand_key].species)

\* C19: a thinning event tagged rotation 2 has the percentage of the volumes
\* of the regen curve build_regen_yield_curves selects for its stand: the
\* curve of the stand's own site-index class and regen species or, when that
\* class has no curve, of the adjacent class the probe finds.
C19_SameRegenCurve ==
    PctDone =>
        \A i \in DOMAIN events :
            ( /\ IsThin(events[i]) /\ events[i].rotation = 2
              /\ events[i].stand_key \in DOMAIN stands
              /\ ResolverClass(events[i]) # None ) =>
                LET cls == Val(ResolverClass(events[i]))
                    pre == RegenPreTotal(events[i], cls)
                    rem == RegenVolumeAt(events[i], cls, PostTreatment(events[i]),
                                         "qP_TOP4M3PA")
                IN  events[i].pct_volume_removed =
                        { IF pre > 0 THEN RoundPct(rem, pre) ELSE 0 }

\* Yields2 has a softwood or hardwood curve for (site-index class, species)
HasCurve(c, sp) ==
    \E k \in DOMAIN yields2 :
        /\ yields2[k].si_value = c
        /\ yields2[k].species_code = sp
        /\ yields2[k].Product \in {"P_TOP4M3PA", "H_TOP4M3PA"}

\* The stand's own class, then the classes at +5, -5, +10, -10
ProbeOrder == <<0, 5, -5, 10, -10>>

\* The first class of the probe order that has a curve, None when none has
FirstClass(si, sp) ==
    LET hits == { k \in DOMAIN ProbeOrder : HasCurve(si + ProbeOrder[k], sp) }
    IN  IF hits = {} THEN None
        ELSE Num(si + ProbeOrder[CHOOSE k \in hits : \A j \in hits : k <= j])

RegenEntries(c, sp, traj, product) ==
    { yields2[k].vol : k \in { j \in DOMAIN yields2 :
                                 /\ yields2[j].si_value = c
                                 /\ yields2[j].species_code = sp
                                 /\ yields2[j].mgmt_trajectory = traj
                                 /\ yields2[j].Product = product } }

\* The amount build_regen_yield_curves adds to a softwood curve
RegenAdjustment(row, c, sp) ==
    IF row.leading_species = "Softwood"
    THEN _compute_qp_adjustment(row.mgmt_trajectory,
             SelectSeq(_extract_volume_by_age(yields2, "qP_TOP4M3PA", MAX_AGE_YIELDS2),
                       LAMBDA r : r.si_value = c /\ r.species_code = sp),
             MAX_AGE_YIELDS2)
    ELSE 0

\* A regen row of the curve table carries, up to the last regen age, the
\* curve Yields2 holds under class c
FromClass(row, c, sp) ==
    LET es == RegenEntries(c, sp, row.mgmt_trajectory, ProductOf(row))
    IN  /\ \E k \in DOMAIN yields2 :
               /\ yields2[k].si_value = c /\ yields2[k].species_code = sp
               /\ yields2[k].mgmt_trajectory = row.mgmt_trajectory
               /\ yields2[k].Product \in {"P_TOP4M3PA", "H_TOP4M3PA"}
        /\ es # {} =>
               \E e \in es : \A a \in _age_cols(MAX_AGE_YIELDS2) :
                   row.vol[a] = InCurveUnits(e, MAX_AGE_YIELDS2)[a]
                                    + RegenAdjustment(row, c, sp)

RegenRowsOfStand(sk) ==
    { row \in CurveRowsOf(GROWTH_PERIOD_POST_REGEN) : row.stand_key = sk }

\* C20: build_regen_yield_curves gives a forest stand the regen curves of
\* the first class, in the order own class, +5, -5, +10, -10, for which
\* Yields2 has a curve of the stand's regen species: the own class whenever
\* it has one, and no regen curve at all when none of the five classes has.
C20_ProbeOrder ==
    CurvesBuilt =>
        \A sk \in DOMAIN stands :
            stand_attrs[sk].IS_FOREST =>
                LET sp == _SPECIES_TO_REGEN(stands[sk].species)
                    first == FirstClass(yc_round_si(stand_attrs[sk].si_raw), sp)
                IN  IF first = None
                    THEN RegenRowsOfStand(sk) = {}
                    ELSE /\ RegenRowsOfStand(sk) # {}
                         /\ \A row \in RegenRowsOfStand(sk) :
                                FromClass(row, Val(first), sp)

\* S1 of class 70: Yields2 has no curve of class 70 but curves of 65, 75
\* and 80, and S1's regen softwood curve is the one of class 75
C20_Witness ==
    /\ CurvesBuilt
    /\ stand_attrs["S1"].si_raw = Num(70)
    /\ ~HasCurve(70, "LB")
    /\ HasCurve(65, "LB") /\ HasCurve(75, "LB") /\ HasCurve(80, "LB")
    /\ \E row \in RegenRowsOfStand("S1") :
           /\ row.leading_species = "Softwood"
           /\ row.vol[15] = 75 * M3_ACRE_TO_M3_HA

\* The removed softwood volume a set of table curves records at an age, in
\* the units of the curve table
RemovedAt(entries, age) ==
    SoleOrZero({ IF age \in DOMAIN vol THEN vol[age] ELSE 0 : vol \in entries })
        * M3_ACRE_TO_M3_HA

\* The thinning ages <<X, Y>> a trajectory key carries
ThinAges(traj) == _parse_thin_ages(traj)

\* The T1-X-T2-0 variant of a trajectory key without fertilisation
OnceThinned(traj) == Trajectory(ThinAges(traj)[1], 0, 0, 0)

\* The correction of a row, own the removed-volume curves of the row's
\* variant and once those of its once-thinned variant: nothing for hardwood
\* and for the no-treatment trajectory, the removed volume at X of the row's
\* variant for thin1 = X and thin2 = 0, the removed volume at X of the
\* once-thinned variant plus the one at Y of the row's variant for
\* thin1 = X and thin2 = Y
Correction(row, own, once) ==
    LET X == ThinAges(row.mgmt_trajectory)[1]
        Y == ThinAges(row.mgmt_trajectory)[2]
    IN  IF row.leading_species # "Softwood" \/ X = 0 THEN 0
        ELSE IF Y = 0 THEN RemovedAt(own, X)
        ELSE RemovedAt(once, X) + RemovedAt(own, Y)

CurrentCorrection(row) ==
    Correction(row,
               Resolved(row.stand_key, row.mgmt_trajectory, "qP_TOP4M3PA"),
               Resolved(row.stand_key, OnceThinned(row.mgmt_trajectory), "qP_TOP4M3PA"))

RegenCorrection(row, c, sp) ==
    Correction(row,
               RegenEntries(c, sp, row.mgmt_trajectory, "qP_TOP4M3PA"),
               RegenEntries(c, sp, OnceThinned(row.mgmt_trajectory), "qP_TOP4M3PA"))

\* The trajectories the claim speaks about: thin1 = 0 and thin2 = 0, or
\* thin1 > 0
Corrected(row) ==
    ThinAges(row.mgmt_trajectory)[1] > 0 \/ ThinAges(row.mgmt_trajectory)[2] = 0

\* C21: every softwood row of the curve table is its table curve raised at
\* every age by the removed volume at the first-thin age X of the T1-X-T2-0
\* variant plus, after a second thin at Y, the removed volume at Y of the
\* T1-X-T2-Y variant; a no-treatment row and a hardwood row are the table
\* curve itself.  Current rows over ages 1..78, regen rows over the regen
\* ages 1..50.
C21_PostThinCorrection ==
    CurvesBuilt =>
        /\ \A row \in CurveRowsOf(GROWTH_PERIOD_CURRENT) :
               LET es == Resolved(row.stand_key, row.mgmt_trajectory, ProductOf(row))
               IN  (Corrected(row) /\ es # {}) =>
                       \E e \in es : \A a \in _age_cols(MAX_AGE_YIELDS1) :
                           row.vol[a] = InCurveUnits(e, MAX_AGE_YIELDS1)[a]
                                            + CurrentCorrection(row)
        /\ \A sk \in DOMAIN stands : \A row \in RegenRowsOfStand(sk) :
               LET sp == _SPECIES_TO_REGEN(stands[sk].species)
                   c == Val(FirstClass(yc_round_si(stand_attrs[sk].si_raw), sp))
                   es == RegenEntries(c, sp, row.mgmt_trajectory, ProductOf(row))
               IN  (Corrected(row) /\ es # {}) =>
                       \E e \in es : \A a \in _age_cols(MAX_AGE_YIELDS2) :
                           row.vol[a] = InCurveUnits(e, MAX_AGE_YIELDS2)[a]
                                            + RegenCorrection(row, c, sp)

\* The twice-thinned softwood curve of S1 (table volume 70) raised by the
\* 40 removed at 19 in the once-thinned variant and the 30 removed at 25 in
\* the twice-thinned one, where the twice-thinned variant records 5 at 19;
\* its once-thinned curve raised by 40, its no-treatment and hardwood curves
\* as in the table; a regen curve thinned at 15 raised by the 20 removed
C21_Witness ==
    /\ CurvesBuilt
    /\ \E r1, r2, r3, r4, r5 \in { curves[i].row : i \in DOMAIN curves } :
           /\ r1.growth_period = GROWTH_PERIOD_CURRENT
           /\ r1.mgmt_trajectory = T19_25 /\ r1.leading_species = "Softwood"
           /\ RemovedAt(Resolved("S1", T19_25, "qP_TOP4M3PA"), 19) = 5 * M3_ACRE_TO_M3_HA
           /\ r1.vol[60] = (70 + 40 + 30) * M3_ACRE_TO_M3_HA
           /\ r2.growth_period = GROWTH_PERIOD_CURRENT
           /\ r2.mgmt_trajectory = T19 /\ r2.leading_species = "Softwood"
           /\ r2.vol[15] = (100 + 40) * M3_ACRE_TO_M3_HA
           /\ r3.growth_period = GROWTH_PERIOD_CURRENT
           /\ r3.mgmt_trajectory = ZERO_TRAJ /\ r3.leading_species = "Softwood"
           /\ r3.vol[19] = 100 * M3_ACRE_TO_M3_HA
           /\ r4.growth_period = GROWTH_PERIOD_CURRENT
           /\ r4.mgmt_trajectory = T19 /\ r4.leading_species = "Hardwood"
           /\ r4.vol[19] = 60 * M3_ACRE_TO_M3_HA
           /\ r5.growth_period = GROWTH_PERIOD_POST_REGEN
           /\ r5.stand_key = "S1"
           /\ r5.mgmt_trajectory = T15 /\ r5.leading_species = "Softwood"
           /\ HasCurve(70, "LB") /\ stand_attrs["S1"].si_raw = Num(70)
           /\ r5.vol[25] = (70 - 8 + 20) * M3_ACRE_TO_M3_HA

\* The classifier tuple and product of a row of the curve table
ClassifierKey(row) ==
    << row.species, row.origin, row.si_class, row.growth_period,
       row.mgmt_trajectory, row.leading_species >>

\* C22: in the final curve table a classifier tuple (species, origin,
\* si_class, growth_period, mgmt_trajectory) and a product identify one
\* curve: no two rows have the same tuple and product and different
\* volumes, and the curve ids are distinct.
C22_OneCurvePerTuple ==
    CurvesBuilt =>
        \A i, j \in DOMAIN curves :
            /\ ClassifierKey(curves[i].row) = ClassifierKey(curves[j].row)
                   => curves[i].row.vol = curves[j].row.vol
            /\ i # j => curves[i].yield_curve_id # curves[j].yield_curve_id

(***************************************************************************)
(* Claims about the classifier assignment                                  *)
(***************************************************************************)
Assigned == pc = "ingested" /\ spatial # <<>>

LayerKeys == { spatial[i].STAND_KEY : i \in DOMAIN spatial }

LayerRow(sk) == spatial[CHOOSE i \in DOMAIN spatial : spatial[i].STAND_KEY = sk]

\* The cell the condition file holds for a stand in a column: that of the
\* stand's first row, missing when the stand has no row
ConditionCell(sk, col) ==
    LET rows == { i \in DOMAIN condition_initial :
                      condition_initial[i].stand_key = sk }
    IN  IF rows = {} THEN NaN
        ELSE condition_initial[CHOOSE i \in rows : \A j \in rows : i <= j][col]

RawSiteIndex(sk) ==
    IF ConditionCell(sk, "SI") # NaN THEN ConditionCell(sk, "SI")
    ELSE LayerRow(sk).SITE_INDEX

ClassValues == { SI_CLASS_INTERVAL * n : n \in 0..20 }

Distance(a, b) == IF a >= b THEN a - b ELSE b - a

\* C23: the site-index class of a stand is SI0 when its raw site index (the
\* condition file's when present, else the spatial layer's) is zero or
\* missing, and otherwise names a multiple of 5 that is nearest to the raw
\* value and at most 2.5 away from it.
C23_NearestClass ==
    Assigned =>
        \A sk \in LayerKeys :
            LET raw == RawSiteIndex(sk)
            IN  IF raw = NaN \/ raw = Num(0)
                THEN stands[sk].si_class = "SI0"
                ELSE \E n \in ClassValues :
                        /\ stands[sk].si_class = "SI" \o ToString(n)
                        /\ Distance(10 * n, Val(raw)) <= 25
                        /\ \A m \in ClassValues :
                               Distance(10 * n, Val(raw)) <= Distance(10 * m, Val(raw))

\* A condition value of 68.0 wins over the layer's 72.5 and gives class 70,
\* while a stand without condition value gets SI0 from a missing layer value
C23_Witness ==
    /\ Assigned
    /\ ConditionCell("S2", "SI") = Num(680)
    /\ stands["S2"].si_class = "SI70"
    /\ ConditionCell("S1", "SI") = NaN
    /\ LayerRow("S1").SITE_INDEX = NaN
    /\ stands["S1"].si_class = "SI0"

TreatmentAges == 0..30

\* The key of the ages a trajectory decodes to
Reencoded(trajectory) ==
    Trajectory(_parse_thin_ages(trajectory)[1], _parse_thin_ages(trajectory)[2], 0, 0)

Malformed == {"", "NOGROW", "T1-19", "T1--T2-0", "T1-19-T2-", "T2-25-T1-19", "19-25-0-0"}

\* C24: the trajectory of every stand has the form T1-a-T2-b-F1-c-F2-d with
\* non-negative integers and is the key of the ages it decodes to; a string
\* of another shape decodes to the no-treatment ages.
C24_RoundTrip ==
    /\ \A s \in Malformed : _parse_thin_ages(s) = <<0, 0>>
    /\ Assigned =>
           \A sk \in LayerKeys :
               /\ \E a, b, c, d \in TreatmentAges :
                      stands[sk].mgmt_trajectory = Trajectory(a, b, c, d)
               /\ Reencoded(stands[sk].mgmt_trajectory) = stands[sk].mgmt_trajectory

ConditionAge(sk, col) ==
    IF ConditionCell(sk, col) = NaN THEN 0 ELSE Val(ConditionCell(sk, col))

\* C25: a non-forest stand has the all-zero trajectory whatever ages the
\* condition file holds for it, a forest stand the trajectory of its four
\* condition ages with 0 for a missing one, and every stand the growth
\* period "current".
C25_TrajectoryAssigned ==
    Assigned =>
        \A sk \in LayerKeys :
            /\ stands[sk].growth_period = "current"
            /\ stands[sk].mgmt_trajectory =
                   IF LayerRow(sk).IS_FOREST
                   THEN Trajectory(ConditionAge(sk, "Thin1"), ConditionAge(sk, "Thin2"),
                                   ConditionAge(sk, "Fert1"), ConditionAge(sk, "Fert2"))
                   ELSE "T1-0-T2-0-F1-0-F2-0"

\* A non-forest stand with a condition row of thinning age 19 next to a forest
\* stand whose second thinning age is missing
C25_Witness ==
    /\ Assigned
    /\ ~LayerRow("S1").IS_FOREST
    /\ ConditionCell("S1", "Thin1") = Num(19)
    /\ stands["S1"].mgmt_trajectory = "T1-0-T2-0-F1-0-F2-0"
    /\ ConditionCell("S2", "Thin2") = NaN
    /\ ConditionCell("S2", "Thin1") = Num(15)
    /\ stands["S2"].mgmt_trajectory = "T1-15-T2-0-F1-0-F2-0"

(***************************************************************************)
(* Claims about the regenerated-rotation curves                            *)
(***************************************************************************)
\* C26: every regen curve of the final table has a value at every age up to
\* 78, and its value at an age beyond 50 is its value at age 50; for the
\* softwood and the hardwood curve, with or without post-thin correction.
C26_FlatBeyondFifty ==
    CurvesBuilt =>
        \A row \in CurveRowsOf(GROWTH_PERIOD_POST_REGEN) :
            /\ DOMAIN row.vol = _age_cols(MAX_AGE_YIELDS1)
            /\ \A a \in DOMAIN row.vol :
                   a > MAX_AGE_YIELDS2 => row.vol[a] = row.vol[MAX_AGE_YIELDS2]

\* A regen curve thinned at 15, raised by the 20 removed, a no-treatment
\* softwood and a hardwood regen curve, each still growing between 25 and 50
C26_Witness ==
    /\ CurvesBuilt
    /\ HasCurve(70, "LB") /\ stand_attrs["S1"].si_raw = Num(70)
    /\ \E r1, r2, r3 \in CurveRowsOf(GROWTH_PERIOD_POST_REGEN) :
           /\ r1.stand_key = "S1" /\ r1.mgmt_trajectory = T15
           /\ r1.leading_species = "Softwood"
           /\ r1.vol[25] = (70 - 8 + 20) * M3_ACRE_TO_M3_HA
           /\ r1.vol[50] = (70 - 5 + 20) * M3_ACRE_TO_M3_HA
           /\ r1.vol[78] = (70 - 5 + 20) * M3_ACRE_TO_M3_HA
           /\ r2.stand_key = "S1" /\ r2.mgmt_trajectory = ZERO_TRAJ
           /\ r2.leading_species = "Softwood"
           /\ r2.vol[25] = (70 + 2) * M3_ACRE_TO_M3_HA
           /\ r2.vol[60] = (70 + 5) * M3_ACRE_TO_M3_HA
           /\ r3.stand_key = "S1" /\ r3.mgmt_trajectory = ZERO_TRAJ
           /\ r3.leading_species = "Hardwood"
           /\ r3.vol[25] = 11 * M3_ACRE_TO_M3_HA
           /\ r3.vol[78] = 12 * M3_ACRE_TO_M3_HA

(***************************************************************************)
(* Claims about the archive's identifiers and proportions                  *)
(***************************************************************************)
InUnitInterval(x) == x[2] > 0 /\ 0 <= x[1] /\ x[1] <= x[2]

\* The fractions the calls pass to create_scaled_disturbance lie in [0, 1]
TargetsInUnitInterval ==
    \A sp \in SpecChoices : "percent" \in DOMAIN sp => InUnitInterval(sp.percent)

\* C27: with target fractions in [0, 1], every proportion of every matrix of
\* the archive, the scaled ones included, lies in [0, 1]; the recomputed
\* diagonal of a scaled matrix is not negative, also for a target above the
\* template's baseline.
C27_ProportionsInUnitInterval ==
    TargetsInUnitInterval =>
        \A i \in DOMAIN aidb.tblDMValuesLookup :
            InUnitInterval(aidb.tblDMValuesLookup[i].Proportion)

\* The identifiers of the archive before the call
OldDMIDs ==
    { Archive("plain").tblDM[i].DMID : i \in DOMAIN Archive("plain").tblDM }
        \cup DMIDs(Archive("plain"))

OldDistTypeIDs == DistTypeIDs(Archive("plain"))

\* The rows the call has appended to a table of the archive
Appended(tbl) ==
    SubSeq(aidb[tbl], Len(Archive("plain")[tbl]) + 1, Len(aidb[tbl]))

NamesUnique ==
    \A i, j \in DOMAIN aidb.tblDisturbanceTypeDefault :
        i # j => Lower(aidb.tblDisturbanceTypeDefault[i].DistTypeName)
                     # Lower(aidb.tblDisturbanceTypeDefault[j].DistTypeName)

IdsDistinct ==
    LET dm == Appended("tblDM")
        dt == Appended("tblDisturbanceTypeDefault")
    IN  /\ \A i, j \in DOMAIN dm : i # j => dm[i].DMID # dm[j].DMID
        /\ \A i \in DOMAIN dm : dm[i].DMID \notin OldDMIDs
        /\ \A i, j \in DOMAIN dt : i # j => dt[i].DistTypeID # dt[j].DistTypeID
        /\ \A i \in DOMAIN dt : dt[i].DistTypeID \notin OldDistTypeIDs
        /\ { r.DMID : r \in { Appended("tblDMValuesLookup")[i] :
                                 i \in DOMAIN Appended("tblDMValuesLookup") } }
               \cap OldDMIDs = {}

\* C28: during and after a call of ensure_disturbances_exist the table of
\* disturbance types holds at most one type per name, compared without case,
\* and every DMID and DistTypeID the call created differs from every other
\* created one and from every identifier the archive held before.
C28_UniqueNamesAndIds ==
    /\ NamesUnique
    /\ IdsDistinct

(***************************************************************************)
(* Claims about the final event table                                      *)
(***************************************************************************)
IsFractionalClearcut(e) == EndsWith(e.disturbance_type, PARTIAL_SUFFIX)

\* C29: every removal percentage of the final event table lies between 0
\* and 100 (held in hundredths): that of a thin, computed from the removed
\* and the pre-treatment volume, and that of a fractional clearcut, the
\* event's share of the stand area.
C29_PctInRange ==
    PctDone =>
        \A i \in DOMAIN events :
            ~IsNa(events[i].pct_volume_removed)
                => /\ Val(events[i].pct_volume_removed) >= 0
                   /\ Val(events[i].pct_volume_removed) <= 100 * 100

\* The percentages of the thins are in range
ThinPctInRange ==
    PctDone =>
        \A i \in DOMAIN events :
            (IsThin(events[i]) /\ ~IsNa(events[i].pct_volume_removed))
                => /\ Val(events[i].pct_volume_removed) >= 0
                   /\ Val(events[i].pct_volume_removed) <= 100 * 100

\* The percentages of the fractional clearcuts are in range
ClearcutPctInRange ==
    PctDone =>
        \A i \in DOMAIN events :
            (IsFractionalClearcut(events[i]) /\ ~IsNa(events[i].pct_volume_removed))
                => /\ Val(events[i].pct_volume_removed) >= 0
                   /\ Val(events[i].pct_volume_removed) <= 100 * 100

\* The event types are final: classify_partial_clearcuts has run
TypesFinal == pc \in {"classified", "pct", "rules"}

\* A full clearcut of the stand stands before event i in the table
AfterFullClearcut(i) ==
    \E j \in 1..(i - 1) :
        /\ events[j].stand_key = events[i].stand_key
        /\ events[j].disturbance_type = "Clearcut"

\* C30: in the final event table every thin tagged rotation 2 has, before it
\* in its stand, an event whose final type is the full "Clearcut"; a thin
\* that only fractional clearcuts of a cluster still open precede is tagged
\* rotation 1.
C30_RotationAfterFullClearcut ==
    TypesFinal =>
        \A i \in DOMAIN events :
            (IsThin(events[i]) /\ events[i].rotation = 2) => AfterFullClearcut(i)

====
